---- MODULE Spec2Model ----
(***************************************************************************)
(* Frame-ingestion pipeline of the barsign_disp firmware:                  *)
(*   - BitmapReceiver (bitmap_udp.rs): chunked bitmap-UDP reassembly       *)
(*   - Hub75 (hub75.rs): double-buffered framebuffer in SDRAM              *)
(*   - Eth (ethernet.rs): peek/acknowledge access to the MAC receive ring  *)
(*   - main loop (main.rs): raw drain, streaming flag, burst loop, slow path*)
(* Integers are the program's (u8/u16/u32/usize on a 32-bit RISC-V core).  *)
(***************************************************************************)
EXTENDS Integers, Sequences, FiniteSets, TLC

\* ------------------------------------------------------------------------
\* Program constants
\* ------------------------------------------------------------------------
HEADER_SIZE == 10
MAX_PAYLOAD == 1462
PIXELS_PER_CHUNK == MAX_PAYLOAD \div 3

\* 0x00400000 = 4194304
FB_SDRAM_OFFSET_BYTES == 4194304 \div 2
FB_TOTAL_WORDS == (4194304 \div 2) \div 4
FB_HALF_WORDS == FB_TOTAL_WORDS \div 2
FB_BASE_WORDS == FB_SDRAM_OFFSET_BYTES \div 4

U16_MAX == 65535
MAGIC0 == 66
MAGIC1 == 77

\* ethernet.rs
NRXSLOTS == 8
NTXSLOTS == 2

\* main.rs: Ethernet(14) + IPv4(20) + UDP(8) header, shortest bitmap frame,
\* bitmap UDP port, streaming timeout, burst loop count, slow-path period
ETH_IP_UDP_HEADER == 42
MIN_BITMAP_FRAME == 52
BITMAP_PORT == 7000
STREAMING_MS == 200
BURST_MAX == 50
SLOW_PERIOD_MS == 5
\* main.rs: period of the animation tick
ANIMATION_MS == 33
FALLBACK_MS == 10000
\* tftp_config.rs
OPCODE_DATA == 3
OPCODE_ERROR == 5
TIMEOUT_MS == 3000
MAX_CONFIG_SIZE == 512

\* ------------------------------------------------------------------------
\* Bounds of the model
\* ------------------------------------------------------------------------
\* process_packet calls explored per run
MaxPackets == 3
\* direct swap_buffers / write_img_data calls explored per run
MaxHubOps == 2
\* millisecond ticks explored per run
MaxTime == 1
\* frames the MAC delivers per run of the main loop
MaxArrivals == 3
\* the network is silent from this tick until tick STREAMING_MS
QuietFrom == 2
\* ticks the main loop is followed beyond STREAMING_MS
MaxLate == 1
\* frames delivered back to back to one drain
MaxFlood == 52
\* transmissions explored per run
MaxTx == 4
\* the tick up to which the idle main loop is followed to reach an
\* animation tick of the slow path; frames arrive from the tick before it
MaxIdle == 330
\* ticks before the fallback tick from which frames arrive
FallbackLead == 1
\* ticks an idle loader is followed for, ticks a server reply may take,
\* datagrams the server sends and calls of start per run
MaxQuiet == 1
MaxReplyDelay == 1
MaxReplies == 3
MaxStarts == 2

Min(a, b) == IF a < b THEN a ELSE b

\* packets_total is a u32, kept as two 16-bit halves (the checker's integers
\* end at 2^31 - 1): packets_total holds the low half, packets_total_hi the
\* high half.  `+= 1` without overflow checks wraps to 0 at u32::MAX.
Inc32(st) ==
    IF st.packets_total < U16_MAX
    THEN [st EXCEPT !.packets_total = st.packets_total + 1]
    ELSE [st EXCEPT !.packets_total = 0,
                    !.packets_total_hi = (st.packets_total_hi + 1) % (U16_MAX + 1)]

\* packets_total == u32::MAX
AtU32Max(st) == st.packets_total = U16_MAX /\ st.packets_total_hi = U16_MAX

\* ------------------------------------------------------------------------
\* Byte-level helpers
\* ------------------------------------------------------------------------
\* u16::to_le_bytes as the sender encodes header fields
to_le_bytes(v) == <<v % 256, v \div 256>>

\* u16::from_le_bytes([lo, hi])
from_le_bytes(lo, hi) == lo + 256 * hi

\* data[HEADER_SIZE..]
PixelData(data) == SubSeq(data, HEADER_SIZE + 1, Len(data))

\* Variant of RgbToPixels that packs r<<16 | g<<8 | b
RgbToPixels_RedHigh(pd) ==
    [j \in 1..(Len(pd) \div 3) |->
        pd[3 * j - 2] * 65536 + pd[3 * j - 1] * 256 + pd[3 * j]]

\* pixel_data.chunks_exact(3).map(|c| c[2]<<16 | c[1]<<8 | c[0]):
\* whole triples only, a trailing remainder is dropped
RgbToPixels(pd) ==
    [j \in 1..(Len(pd) \div 3) |->
        pd[3 * j] * 65536 + pd[3 * j - 1] * 256 + pd[3 * j - 2]]

\* ------------------------------------------------------------------------
\* State
\* ------------------------------------------------------------------------
VARIABLES
    rx,               \* BitmapReceiver (assembly state and stats)
    hub,              \* Hub75: roles, length, registers, SDRAM words
    time_ms,          \* main loop's millisecond clock
    panicked,         \* a Rust panic was raised (panic handler resets the SoC)
    overflow_checks,  \* build profile: integer overflow panics (TRUE) or wraps
    last,             \* history: the last operation, its input and result
    arrived,          \* history: chunk indices counted since chunks_count was last 0, in order
    run,              \* history: streak of distinct chunks of one frame
    tally,            \* history: events and swap signals per frame identifier
    tftp_loader,      \* TftpConfigLoader, its UDP socket and the history of its calls
    swaplog,          \* history: role assignments before the last swap_buffers calls
    hubops,           \* history: number of direct Hub75 API calls so far
    sched,            \* main loop: position and locals
    mac,              \* MAC receive ring: current slot and pending frames
    sock,             \* datagrams queued in the bitmap UDP socket
    hist,             \* history of the main loop: arrivals, acknowledgments, events
    tx                \* MAC transmit side: EthTxToken::consume, SLOT, TX slots, registers

schedvars == <<sched, mac, sock, hist, tx>>

vars == <<rx, hub, time_ms, panicked, overflow_checks, last, arrived, run, tally,
          tftp_loader, swaplog, hubops, sched, mac, sock, hist, tx>>

\* BitmapStats::new
BitmapStats_new ==
    [packets_total |-> 0, packets_total_hi |-> 0, packets_valid |-> 0, packets_bad_magic |-> 0,
     packets_bad_header |-> 0, frames_completed |-> 0, frames_partial |-> 0,
     frames_dropped |-> 0, last_frame_id |-> 0, last_chunk_index |-> 0,
     last_total_chunks |-> 0, last_width |-> 0, last_height |-> 0,
     last_data_len |-> 0, chunks_received |-> 0, frame_interval_ms |-> 0,
     avg_interval_ms |-> 0, jitter_ms |-> 0]

\* BitmapReceiver::new
BitmapReceiver_new ==
    [current_frame_id |-> U16_MAX, chunks_count |-> 0, total_chunks |-> 0,
     width |-> 0, height |-> 0, last_complete_ms |-> 0,
     stats |-> BitmapStats_new]

\* Word address of SDRAM half b (0 or 1) as the gateware's fb_base sees it
RegionBase(b) == IF b = 1 THEN FB_BASE_WORDS + FB_HALF_WORDS ELSE FB_BASE_WORDS

\* Hub75::new: buf1 is the back buffer, buf0 the front buffer, fb_base = buf0.
\* mem[b] holds the words of half b written so far (index -> word).
Hub75_new ==
    [hub75_data |-> 1, display_buffer |-> 0, length |-> 0, active_buf |-> 0,
     fb_base |-> FB_BASE_WORDS, ctrl_width |-> 0,
     mem |-> [b \in {0, 1} |-> <<>>]]

\* ------------------------------------------------------------------------
\* Hub75 (hub75.rs)
\* ------------------------------------------------------------------------
\* Variant of swap_buffers that programs fb_base from active_buf before
\* toggling it
swap_buffers_StaleBase(h) ==
    [h EXCEPT !.hub75_data = h.display_buffer,
              !.display_buffer = h.hub75_data,
              !.active_buf = 1 - h.active_buf,
              !.fb_base = RegionBase(h.active_buf)]

\* Hub75::swap_buffers: exchange the two slices, toggle active_buf and
\* reprogram fb_base from active_buf
swap_buffers(h) ==
    LET ab == 1 - h.active_buf
    IN  [h EXCEPT !.hub75_data = h.display_buffer,
                  !.display_buffer = h.hub75_data,
                  !.active_buf = ab,
                  !.fb_base = RegionBase(ab)]

\* Variant of set_img_param that empties the write-side half
set_img_param_Clearing(h, w, len) ==
    [h EXCEPT !.ctrl_width = w, !.length = len, !.mem[h.hub75_data] = <<>>]

\* Hub75::set_img_param: ctrl.width register and the length field
set_img_param(h, w, len) == [h EXCEPT !.ctrl_width = w, !.length = len]

\* Hub75::get_img_param
get_img_param(h) == <<h.ctrl_width, h.length>>

\* Variant of WriteRegion that indexes the front buffer
WriteRegion_Display(h) == h.display_buffer

\* The slice write_img_data indexes: self.hub75_data
WriteRegion(h) == h.hub75_data

\* Words of one SDRAM half after storing pixels[1..n] at offset..offset+n-1
StoreWords(words, offset, pixels, n) ==
    [i \in (DOMAIN words) \cup (offset..(offset + n - 1)) |->
        IF i >= offset /\ i < offset + n THEN pixels[i - offset + 1]
        ELSE words[i]]

\* The number of items `take(self.length as usize - offset)` lets through,
\* given `avail` items offered by the zip.  When offset > length the usize
\* subtraction wraps (overflow checks off) to 2^32 - (offset - length); offset
\* is at most FB_HALF_WORDS here, so the wrapped count exceeds the slice
\* length and never truncates.
TakeCount(len, offset, avail) ==
    IF len >= offset THEN Min(len - offset, avail) ELSE avail

\* Hub75::write_img_data(offset, data).  Result: [panic, hub].
\*   self.hub75_data[offset..]      panics when offset > slice length
\*   self.length as usize - offset  panics on underflow with overflow checks,
\*                                  wraps without
write_img_data(h, offset, pixels, oc) ==
    IF offset > FB_HALF_WORDS THEN [panic |-> TRUE, hub |-> h]
    ELSE IF h.length < offset /\ oc THEN [panic |-> TRUE, hub |-> h]
    ELSE
        LET avail == Min(FB_HALF_WORDS - offset, Len(pixels))
            n     == TakeCount(h.length, offset, avail)
            r     == WriteRegion(h)
        IN  [panic |-> FALSE,
             hub |-> [h EXCEPT !.mem[r] = StoreWords(h.mem[r], offset, pixels, n)]]

\* ------------------------------------------------------------------------
\* BitmapReceiver (bitmap_udp.rs)
\* ------------------------------------------------------------------------
\* BitmapReceiver::update_timing
update_timing(r, t) ==
    LET interval == t - r.last_complete_ms
        avg0 == r.stats.avg_interval_ms
        avg  == IF avg0 = 0 THEN interval ELSE (avg0 * 7 + interval) \div 8
        jit  == IF interval > avg THEN interval - avg ELSE avg - interval
    IN  IF r.last_complete_ms > 0
        THEN [r EXCEPT !.stats.frame_interval_ms = interval,
                       !.stats.avg_interval_ms = avg,
                       !.stats.jitter_ms = jit,
                       !.last_complete_ms = t]
        ELSE [r EXCEPT !.last_complete_ms = t]

\* Length check: data.len() < HEADER_SIZE
TooShort(data) == Len(data) < HEADER_SIZE

\* Variant of BadMagic that compares the first byte only
BadMagic_FirstByteOnly(data) == data[1] # MAGIC0

\* Magic check: data[0] != 0x42 || data[1] != 0x4D
BadMagic(data) == data[1] # MAGIC0 \/ data[2] # MAGIC1

\* Variant of BadHeader without the chunk index test
BadHeader_ZeroOnly(chunk_index, total_chunks) ==
    total_chunks = 0

\* Variant of BadHeader that lets chunk_index == total_chunks through
BadHeader_OffByOne(chunk_index, total_chunks) ==
    total_chunks = 0 \/ chunk_index > total_chunks

\* Header validation: total_chunks == 0 || chunk_index >= total_chunks
BadHeader(chunk_index, total_chunks) ==
    total_chunks = 0 \/ chunk_index >= total_chunks

\* Dimension check on a new frame id:
\* cur_w != 0 && (width != cur_w || incoming_len != cur_len)
DimMismatch(h, width, height) ==
    LET p == get_img_param(h)
    IN  p[1] # 0 /\ (width # p[1] \/ width * height # p[2])

\* Variant of CloseEnough with the threshold total - 1
CloseEnough_MinusOne(chunks_count, total) ==
    total > 0 /\ chunks_count >= (IF total >= 1 THEN total - 1 ELSE 0)

\* "Close enough" test on the previous frame:
\* total > 0 && chunks_count >= total.saturating_sub(2)
CloseEnough(chunks_count, total) ==
    total > 0 /\ chunks_count >= (IF total >= 2 THEN total - 2 ELSE 0)

\* Variant of Complete that only compares the count with the tracked total
Complete_CountOnly(chunk_index, total_chunks, chunks_count, self_total) ==
    chunks_count >= self_total

\* Completion test after counting the chunk:
\* chunk_index == total_chunks - 1 || chunks_count >= self.total_chunks
Complete(chunk_index, total_chunks, chunks_count, self_total) ==
    chunk_index = total_chunks - 1 \/ chunks_count >= self_total

\* The value process_packet returns: complete || swapped_partial
ReturnValue(complete, swapped_partial) == complete \/ swapped_partial

\* Variant of NewFrame that carries the chunk count over to the new frame
NewFrame_KeepCount(r, h, frame_id, total_chunks, width, height, t) ==
    LET partial == r.chunks_count > 0 /\ CloseEnough(r.chunks_count, r.total_chunks)
        dropped == r.chunks_count > 0 /\ ~partial
        r1 == IF partial
              THEN update_timing(
                     [r EXCEPT !.stats.frames_partial = r.stats.frames_partial + 1], t)
              ELSE IF dropped
              THEN [r EXCEPT !.stats.frames_dropped = r.stats.frames_dropped + 1]
              ELSE r
    IN  [rx |-> [r1 EXCEPT !.current_frame_id = frame_id,
                           !.total_chunks = total_chunks,
                           !.width = width,
                           !.height = height],
         hub |-> IF partial THEN swap_buffers(h) ELSE h,
         swapped_partial |-> partial]

\* Lines 132-162: a packet whose frame id differs from the tracked one
\* finalizes (partial swap) or drops the previous frame, then resets.
\* Result: [rx, hub, swapped_partial].
NewFrame(r, h, frame_id, total_chunks, width, height, t) ==
    LET partial == r.chunks_count > 0 /\ CloseEnough(r.chunks_count, r.total_chunks)
        dropped == r.chunks_count > 0 /\ ~partial
        r1 == IF partial
              THEN update_timing(
                     [r EXCEPT !.stats.frames_partial = r.stats.frames_partial + 1], t)
              ELSE IF dropped
              THEN [r EXCEPT !.stats.frames_dropped = r.stats.frames_dropped + 1]
              ELSE r
    IN  [rx |-> [r1 EXCEPT !.current_frame_id = frame_id,
                           !.chunks_count = 0,
                           !.total_chunks = total_chunks,
                           !.width = width,
                           !.height = height],
         hub |-> IF partial THEN swap_buffers(h) ELSE h,
         swapped_partial |-> partial]

\* Variant of PixelOffset that takes the chunk index as the offset
PixelOffset_NoStride(chunk_index) == chunk_index

\* pixel_offset = chunk_index as usize * PIXELS_PER_CHUNK
PixelOffset(chunk_index) == chunk_index * PIXELS_PER_CHUNK

\* Lines 164-188: write the chunk, count it, test for completion.
\* Result: [rx, hub, ret, panic].
StoreChunk(r, h, data, chunk_index, total_chunks, swapped_partial, t, oc) ==
    LET w  == write_img_data(h, PixelOffset(chunk_index),
                             RgbToPixels(PixelData(data)), oc)
        cc == r.chunks_count + 1
        complete == Complete(chunk_index, total_chunks, cc, r.total_chunks)
        r1 == [r EXCEPT !.chunks_count = cc, !.stats.chunks_received = cc]
        r2 == IF complete
              THEN update_timing(
                     [r1 EXCEPT !.stats.frames_completed = r1.stats.frames_completed + 1,
                                !.chunks_count = 0], t)
              ELSE r1
    IN  IF w.panic
        THEN [rx |-> r, hub |-> h, ret |-> FALSE, panic |-> TRUE]
        ELSE [rx |-> r2, hub |-> w.hub,
              ret |-> ReturnValue(complete, swapped_partial),
              panic |-> FALSE]

\* BitmapReceiver::process_packet(data, hub75, time_ms).
\* Result: [rx, hub, ret, panic].
\* With overflow checks `packets_total += 1` panics at u32::MAX.  No other
\* counter exceeds packets_total, which is incremented first, so none of
\* them reaches u32::MAX before it does.
process_packet(r, h, data, t, oc) ==
    IF oc /\ AtU32Max(r.stats)
    THEN [rx |-> r, hub |-> h, ret |-> FALSE, panic |-> TRUE]
    ELSE
    LET r0 == [r EXCEPT !.stats = [Inc32(r.stats) EXCEPT !.last_data_len = Len(data)]]
        bad(rr) == [rx |-> [rr EXCEPT !.stats.packets_bad_header =
                                          rr.stats.packets_bad_header + 1],
                    hub |-> h, ret |-> FALSE, panic |-> FALSE]
    IN  IF TooShort(data) THEN bad(r0)
        ELSE IF BadMagic(data)
        THEN [rx |-> [r0 EXCEPT !.stats.packets_bad_magic =
                                    r0.stats.packets_bad_magic + 1],
              hub |-> h, ret |-> FALSE, panic |-> FALSE]
        ELSE
        LET frame_id     == from_le_bytes(data[3], data[4])
            chunk_index  == data[5]
            total_chunks == data[6]
            width        == from_le_bytes(data[7], data[8])
            height       == from_le_bytes(data[9], data[10])
            r1 == [r0 EXCEPT !.stats.last_frame_id = frame_id,
                             !.stats.last_chunk_index = chunk_index,
                             !.stats.last_total_chunks = total_chunks,
                             !.stats.last_width = width,
                             !.stats.last_height = height]
        IN  IF BadHeader(chunk_index, total_chunks) THEN bad(r1)
            ELSE
            LET r2 == [r1 EXCEPT !.stats.packets_valid = r1.stats.packets_valid + 1]
            IN  IF frame_id # r2.current_frame_id
                THEN IF DimMismatch(h, width, height) THEN bad(r2)
                     ELSE LET nf == NewFrame(r2, h, frame_id, total_chunks,
                                             width, height, t)
                          IN  StoreChunk(nf.rx, nf.hub, data, chunk_index,
                                         total_chunks, nf.swapped_partial, t, oc)
                ELSE StoreChunk(r2, h, data, chunk_index, total_chunks,
                                FALSE, t, oc)

\* ------------------------------------------------------------------------
\* Inputs explored
\* ------------------------------------------------------------------------
\* A bitmap-UDP payload as a sender lays it out (spec section 6 wire format)
Packet(m0, m1, frame_id, chunk_index, total_chunks, w, h, px) ==
    <<m0, m1>> \o to_le_bytes(frame_id) \o <<chunk_index, total_chunks>>
        \o to_le_bytes(w) \o to_le_bytes(h) \o px

\* One RGB triple whose red byte tells the chunks apart
Triple(chunk_index) == <<chunk_index + 1, 0, 255>>

\* (width, length) pairs given to set_img_param
ImgParams == {<<32, 512>>}
HubImgParams == {<<4, 8>>}
\* a 4x2 image reconfigured to 8x1 and back
ScenarioImgParams == {<<4, 8>>, <<8, 8>>}

\* Chunks of frames 5 and 6 and of the sentinel id for a 32x16 image, chunks
\* of frame 6 for a 4x2 image, headers beyond 32 chunks and far beyond the
\* image, headers that fail validation, odd payload lengths, bad magic,
\* truncated and empty datagrams
Payloads ==
    {Packet(MAGIC0, MAGIC1, 5, hd[1], hd[2], 32, 16, Triple(hd[1])) :
        hd \in {<<0, 2>>, <<1, 2>>, <<0, 4>>, <<1, 4>>, <<3, 4>>,
                <<33, 34>>, <<135, 255>>, <<0, 0>>, <<2, 2>>}}
    \cup {Packet(MAGIC0, MAGIC1, 6, hd[1], hd[2], 32, 16, Triple(hd[1])) :
        hd \in {<<0, 2>>, <<1, 2>>}}
    \cup {Packet(MAGIC0, MAGIC1, U16_MAX, hd[1], hd[2], 32, 16, Triple(hd[1])) :
        hd \in {<<0, 2>>, <<1, 2>>}}
    \cup {Packet(MAGIC0, MAGIC1, 6, hd[1], hd[2], 4, 2, Triple(hd[1])) :
        hd \in {<<0, 2>>, <<1, 2>>}}
    \cup {Packet(MAGIC0, MAGIC1, 5, 0, 2, 32, 16, <<1, 2, 3, 4, 5, 6, 7>>),
          Packet(MAGIC0, 0, 5, 0, 2, 32, 16, Triple(0)),
          <<MAGIC0, MAGIC1, 5, 0, 2, 2>>,
          <<>>}

\* The two chunks of frame 1 of a 4x2 image: four red triples (FF 00 00) in
\* chunk 0 of 2, four blue triples (00 00 FF) in chunk 1 of 2
RedChunk ==
    Packet(MAGIC0, MAGIC1, 1, 0, 2, 4, 2,
           <<255, 0, 0, 255, 0, 0, 255, 0, 0, 255, 0, 0>>)
BlueChunk ==
    Packet(MAGIC0, MAGIC1, 1, 1, 2, 4, 2,
           <<0, 0, 255, 0, 0, 255, 0, 0, 255, 0, 0, 255>>)

\* Chunks of a 4x2 image fed while the Hub75 API is exercised directly
HubPayloads ==
    {Packet(MAGIC0, MAGIC1, 5, 0, 2, 4, 2, Triple(0)),
     Packet(MAGIC0, MAGIC1, 6, 0, 2, 4, 2, Triple(2)),
     Packet(MAGIC0, MAGIC1, 6, 1, 2, 4, 2, Triple(3))}

\* The chunks of the red/blue frame, fed in any order and number
ScenarioPayloads == {RedChunk, BlueChunk}

\* offsets and pixel sequences given to write_img_data by direct callers
WriteOffsets == {0, 7, 9, FB_HALF_WORDS + 1}
WritePixels == {<<7, 8>>}

\* ------------------------------------------------------------------------
\* History helpers
\* ------------------------------------------------------------------------
NoRun == [id |-> -1, total |-> 0, seen |-> {}, completions |-> 0]

\* Nothing accepted yet.  id: the frame identifier of the last accepted
\* packet; events, signals: what that identifier has contributed so far to
\* frames_completed + frames_partial + frames_dropped and to the calls that
\* returned true; prev_events, prev_signals: the same for the identifier
\* before it, closed by the packet that replaced it; gone: identifiers
\* replaced so far; contiguous: no identifier came back after another one
NoTally ==
    [id |-> -1, events |-> 0, signals |-> 0, prev_events |-> 0,
     prev_signals |-> 0, gone |-> {}, contiguous |-> TRUE]

\* The tally after an accepted packet of frame `id`: completed, partial,
\* dropped are the counters the call advanced
Tally(tl, id, completed, partial, dropped) ==
    LET c == IF completed THEN 1 ELSE 0
        f == IF partial \/ dropped THEN 1 ELSE 0
        g == IF partial THEN 1 ELSE 0
    IN  IF id = tl.id
        THEN [tl EXCEPT !.events = tl.events + c, !.signals = tl.signals + c]
        ELSE [id |-> id, events |-> c, signals |-> c,
              prev_events |-> tl.events + f,
              prev_signals |-> tl.signals + g,
              gone |-> IF tl.id = -1 THEN tl.gone ELSE tl.gone \cup {tl.id},
              contiguous |-> tl.contiguous /\ id \notin tl.gone]

Range(q) == {q[i] : i \in DOMAIN q}

\* Role assignment and display base register of a Hub75
Roles(h) == <<h.hub75_data, h.display_buffer, h.fb_base>>

\* The record kept of an operation that is no process_packet call
Op(name, data, offset) ==
    [op |-> name, data |-> data, offset |-> offset, ret |-> FALSE,
     stored |-> FALSE, completed |-> FALSE, partial |-> FALSE,
     dropped |-> FALSE, dup |-> FALSE, arrived |-> <<>>]

\* The payload passes every check process_packet makes on a chunk of a new
\* frame: length, magic, header fields, dimensions against the image
WellFormed(h, data) ==
    /\ Len(data) >= HEADER_SIZE
    /\ data[1] = MAGIC0 /\ data[2] = MAGIC1
    /\ data[6] # 0 /\ data[5] < data[6]
    /\ LET p == get_img_param(h)
           w == from_le_bytes(data[7], data[8])
           ht == from_le_bytes(data[9], data[10])
       IN  p[1] = 0 \/ (w = p[1] /\ w * ht = p[2])

\* Ipv4Address::UNSPECIFIED
UNSPECIFIED == "0.0.0.0"

\* TftpConfigLoader::new; buf holds the first len bytes of the buffer (the
\* bytes behind them are never read)
TftpConfigLoader_new ==
    [state |-> "Idle", gateway |-> UNSPECIFIED, server_tid |-> 0, block |-> 0,
     deadline_ms |-> 0, buf |-> <<>>, len |-> 0]

\* The loader's UDP socket as created at main.rs:116-128 (closed, both
\* buffers empty), a call history: ret is what the last poll returned, calls
\* the parity of the polls made, took the (block, expected block) pairs of
\* the datagrams appended since start, and counts of starts and replies
TftpInit ==
    [self |-> TftpConfigLoader_new,
     socket |-> [open |-> FALSE, tx_full |-> FALSE, rx |-> <<>>],
     ret |-> FALSE, calls |-> 0, took |-> <<>>, starts |-> 0, replies |-> 0]

\* The transmit side after Eth::new: SLOT = 0, sram_reader_slot = 0, both TX
\* slots empty; ready is the MAC's sram_reader_ready, sent the slots used so
\* far and spins the parity of the reads of ready (history)
Tx_new ==
    [pc |-> "idle", SLOT |-> 0, ready |-> 1, payload |-> <<>>,
     slots |-> [i \in 0..(NTXSLOTS - 1) |-> <<>>],
     reader_slot |-> 0, reader_length |-> 0, sent |-> <<>>, spins |-> 0]

\* A frame in the MAC ring: id is the arrival number (history), bytes the
\* raw Ethernet frame
NoFrame == [id |-> 0, bytes |-> <<>>]

\* Eth::new and the locals of main before the loop is entered
\* (time_ms = 0, last_bitmap_packet_ms = 0)
SchedInit ==
    /\ sched = [pc |-> "top", ret |-> "flag", last_bitmap_packet_ms |-> 0,
                timer_fired |-> FALSE, streaming |-> FALSE, burst |-> 0,
                found |-> FALSE, tftp |-> "Idle", addr |-> "unspecified"]
    /\ mac = [slot |-> 0, queue |-> <<>>]
    /\ sock = <<>>
    /\ tx = Tx_new
    /\ hist = [arrivals |-> 0, acked |-> <<>>, held |-> 0, drained |-> 0,
               rx_tick |-> -1, ran |-> {}, anim |-> -1,
               ev |-> [op |-> "boot", tick |-> 0, frame |-> NoFrame]]

\* ------------------------------------------------------------------------
\* Initial state: after Hub75::new and BitmapReceiver::new
\* ------------------------------------------------------------------------
Init ==
    /\ SchedInit
    /\ rx = BitmapReceiver_new
    /\ hub = Hub75_new
    /\ time_ms = 0
    /\ panicked = FALSE
    /\ overflow_checks \in BOOLEAN
    /\ last = Op("new", <<>>, 0)
    /\ arrived = <<>>
    /\ run = NoRun
    /\ tally = NoTally
    /\ tftp_loader = TftpInit
    /\ swaplog = <<>>
    /\ hubops = 0

\* ------------------------------------------------------------------------
\* Actions
\* ------------------------------------------------------------------------
\* The 1 ms timer fired: time_ms += 1 (main.rs:242-244)
Tick ==
    /\ ~panicked
    /\ time_ms < MaxTime
    /\ time_ms' = time_ms + 1
    /\ last' = Op("tick", <<>>, 0)
    /\ UNCHANGED <<rx, hub, panicked, overflow_checks, arrived, run, tally,
                   tftp_loader, swaplog, hubops>>
    /\ UNCHANGED schedvars

\* One call bitmap_rx.process_packet(data, &mut hub75, time_ms); what the
\* caller does with the returned flag is not part of this action
ProcessPacket(data) ==
    LET res == process_packet(rx, hub, data, time_ms, overflow_checks)
        st0 == rx.stats
        st1 == res.rx.stats
        \* the chunk was accepted, written and counted
        stored == /\ ~res.panic
                  /\ st1.packets_valid = st0.packets_valid + 1
                  /\ st1.packets_bad_header = st0.packets_bad_header
        completed == st1.frames_completed # st0.frames_completed
        reset == res.rx.current_frame_id # rx.current_frame_id
        before == IF reset THEN <<>> ELSE arrived
        now == Append(before, data[5])
        id == from_le_bytes(data[3], data[4])
        extend == /\ run.id = id /\ run.total = data[6]
                  /\ data[5] \notin run.seen
                  /\ run.seen # 0..(run.total - 1)
    IN  /\ ~panicked
        /\ \/ rx.stats.packets_total < MaxPackets
           \/ rx.stats.packets_total_hi = U16_MAX
        /\ rx' = res.rx
        /\ hub' = res.hub
        /\ panicked' = res.panic
        /\ arrived' = IF ~stored THEN arrived
                      ELSE IF completed THEN <<>> ELSE now
        /\ last' = [op |-> "process_packet", data |-> data,
                    offset |-> IF stored THEN data[5] * PIXELS_PER_CHUNK ELSE 0,
                    ret |-> res.ret, stored |-> stored, completed |-> completed,
                    partial |-> st1.frames_partial # st0.frames_partial,
                    dropped |-> st1.frames_dropped # st0.frames_dropped,
                    dup |-> stored /\ data[5] \in Range(before),
                    arrived |-> IF stored THEN now ELSE <<>>]
        /\ run' = IF ~WellFormed(hub, data) \/ res.panic THEN NoRun
                  ELSE IF extend
                  THEN [run EXCEPT !.seen = run.seen \cup {data[5]},
                                   !.completions = run.completions
                                        + (IF completed THEN 1 ELSE 0)]
                  ELSE [id |-> id, total |-> data[6], seen |-> {data[5]},
                        completions |-> IF completed THEN 1 ELSE 0]
        /\ tally' = IF ~stored THEN tally
                    ELSE Tally(tally, id, completed,
                               st1.frames_partial # st0.frames_partial,
                               st1.frames_dropped # st0.frames_dropped)
        /\ swaplog' = <<>>
        /\ UNCHANGED <<time_ms, overflow_checks, hubops, tftp_loader>>
        /\ UNCHANGED schedvars

\* hub75.swap_buffers() called directly (menu.rs:76, menu.rs:310, http.rs:372)
SwapBuffers ==
    /\ ~panicked
    /\ hubops < MaxHubOps
    /\ hub' = swap_buffers(hub)
    /\ swaplog' = IF Len(swaplog) < 2 THEN Append(swaplog, Roles(hub))
                  ELSE <<swaplog[2], Roles(hub)>>
    /\ last' = Op("swap_buffers", <<>>, 0)
    /\ hubops' = hubops + 1
    /\ run' = NoRun
    /\ UNCHANGED <<tally, tftp_loader>>
    /\ UNCHANGED <<rx, time_ms, panicked, overflow_checks, arrived>>
    /\ UNCHANGED schedvars

\* hub75.write_img_data(offset, pixels) called directly (menu.rs:309, http.rs:352)
WriteImgData(offset, pixels) ==
    LET res == write_img_data(hub, offset, pixels, overflow_checks)
    IN  /\ ~panicked
        /\ hubops < MaxHubOps
        /\ hub' = res.hub
        /\ panicked' = res.panic
        /\ last' = Op("write_img_data", pixels, offset)
        /\ hubops' = hubops + 1
        /\ swaplog' = <<>>
        /\ run' = NoRun
        /\ UNCHANGED <<tally, tftp_loader>>
        /\ UNCHANGED <<rx, time_ms, overflow_checks, arrived>>
        /\ UNCHANGED schedvars

\* hub75.set_img_param(width, length) (layout.rs:51, menu.rs:392, main.rs:166);
\* a call that repeats the current parameters changes nothing and is skipped
SetImgParam(w, len) ==
    /\ ~panicked
    /\ get_img_param(hub) # <<w, len>>
    /\ hub' = set_img_param(hub, w, len)
    /\ last' = Op("set_img_param", <<w, len>>, 0)
    /\ swaplog' = <<>>
    /\ run' = NoRun
    /\ UNCHANGED <<tally, tftp_loader>>
    /\ UNCHANGED <<rx, time_ms, panicked, overflow_checks, arrived, hubops>>
    /\ UNCHANGED schedvars

Next ==
    \/ \E data \in Payloads : ProcessPacket(data)
    \/ \E p \in ImgParams : SetImgParam(p[1], p[2])

\* The reassembler fed from the network, the image size set by its callers
Spec == Init /\ [][Next]_vars

NextTiming ==
    \/ \E data \in Payloads : ProcessPacket(data)
    \/ \E p \in ImgParams : SetImgParam(p[1], p[2])
    \/ Tick

\* The reassembler fed from the network while the millisecond clock runs
SpecTiming == Init /\ [][NextTiming]_vars

\* A receiver that has counted 2^32 - 2 datagrams since boot: 2^31 - 1 of
\* 13 bytes with bad magic, then 2^31 - 1 empty ones
InitCounters ==
    /\ SchedInit
    /\ rx = [BitmapReceiver_new EXCEPT
                !.stats.packets_total = U16_MAX - 1,
                !.stats.packets_total_hi = U16_MAX,
                !.stats.packets_bad_magic = 2147483647,
                !.stats.packets_bad_header = 2147483647]
    /\ hub = Hub75_new
    /\ time_ms = 0
    /\ panicked = FALSE
    /\ overflow_checks \in BOOLEAN
    /\ last = Op("new", <<>>, 0)
    /\ arrived = <<>>
    /\ run = NoRun
    /\ tally = NoTally
    /\ tftp_loader = TftpInit
    /\ swaplog = <<>>
    /\ hubops = 0

\* Well-formed chunks of frames 5 and 6: chunk 0 of 4, chunk 0 of 2,
\* chunk 0 of 1
CounterPayloads ==
    {Packet(MAGIC0, MAGIC1, 5, 0, 4, 32, 16, Triple(0)),
     Packet(MAGIC0, MAGIC1, 5, 0, 2, 32, 16, Triple(0)),
     Packet(MAGIC0, MAGIC1, 6, 0, 4, 32, 16, Triple(0)),
     Packet(MAGIC0, MAGIC1, 6, 0, 1, 32, 16, Triple(0))}

NextCounters ==
    \E data \in CounterPayloads : ProcessPacket(data)

\* The reassembler in long service: its packet counter is about to pass
\* u32::MAX
SpecCounters == InitCounters /\ [][NextCounters]_vars

NextHub ==
    \/ \E data \in HubPayloads : ProcessPacket(data)
    \/ SwapBuffers
    \/ \E o \in WriteOffsets, px \in WritePixels : WriteImgData(o, px)
    \/ \E p \in HubImgParams : SetImgParam(p[1], p[2])

\* The Hub75 API driven directly by its callers, next to the reassembler
SpecHub == Init /\ [][NextHub]_vars

NextScenario ==
    \/ \E data \in ScenarioPayloads : ProcessPacket(data)
    \/ SwapBuffers
    \/ \E p \in ScenarioImgParams : SetImgParam(p[1], p[2])

\* The red/blue frame fed to the reassembler while its callers swap the
\* buffers and reconfigure the image
SpecScenario == Init /\ [][NextScenario]_vars

\* ========================================================================
\* Receive ring (ethernet.rs) and main loop (main.rs)
\* ========================================================================
\* Variant of is_bitmap_udp without the header-length test
is_bitmap_udp_AnyIhl(bytes) ==
    /\ Len(bytes) >= MIN_BITMAP_FRAME
    /\ bytes[13] = 8 /\ bytes[14] = 0
    /\ bytes[24] = 17
    /\ bytes[37] = 27 /\ bytes[38] = 88

\* is_bitmap_udp(frame): indices are 1-based here, frame[12] is bytes[13]
is_bitmap_udp(bytes) ==
    /\ Len(bytes) >= MIN_BITMAP_FRAME
    /\ bytes[13] = 8 /\ bytes[14] = 0
    /\ bytes[15] % 16 = 5
    /\ bytes[24] = 17
    /\ bytes[37] = 27 /\ bytes[38] = 88

\* Variant of peek_rx that frees the slot it returns
peek_rx_Consuming(m) ==
    IF m.queue = <<>>
    THEN [some |-> FALSE, slot |-> m.slot, frame |-> NoFrame, mac |-> m]
    ELSE [some |-> TRUE, slot |-> m.slot, frame |-> Head(m.queue),
          mac |-> [slot |-> (m.slot + 1) % NRXSLOTS, queue |-> Tail(m.queue)]]

\* Eth::peek_rx: None when sram_writer_ev_pending reads 0, else the frame of
\* the current slot; only registers are read.  Result: the Option, the slot
\* and length read, and the MAC afterwards.
peek_rx(m) ==
    IF m.queue = <<>>
    THEN [some |-> FALSE, slot |-> m.slot, frame |-> NoFrame, mac |-> m]
    ELSE [some |-> TRUE, slot |-> m.slot, frame |-> Head(m.queue), mac |-> m]

\* Variant of ack_rx that frees two slots
ack_rx_TwoSlots(m) ==
    IF Len(m.queue) < 2 THEN [slot |-> (m.slot + 1) % NRXSLOTS, queue |-> <<>>]
    ELSE [slot |-> (m.slot + 2) % NRXSLOTS, queue |-> Tail(Tail(m.queue))]

\* Eth::ack_rx: writing sram_writer_ev_pending clears the event of the current
\* slot, the MAC moves on to the next pending slot
ack_rx(m) ==
    IF m.queue = <<>> THEN m
    ELSE [slot |-> (m.slot + 1) % NRXSLOTS, queue |-> Tail(m.queue)]

\* What the protocol stack does with a frame it consumed: an IPv4 UDP
\* datagram for port 7000 is queued in the bitmap socket (bound at
\* main.rs:156-159), anything else goes to the other sockets
UdpOffset(bytes) == 14 + 4 * (bytes[15] % 16)

RoutedToBitmapSocket(bytes) ==
    /\ Len(bytes) >= 15
    /\ bytes[13] = 8 /\ bytes[14] = 0
    /\ Len(bytes) >= UdpOffset(bytes) + 8
    /\ bytes[24] = 17
    /\ bytes[UdpOffset(bytes) + 3] * 256 + bytes[UdpOffset(bytes) + 4] = BITMAP_PORT

UdpPayload(bytes) == SubSeq(bytes, UdpOffset(bytes) + 9, Len(bytes))

\* iface.poll(time): the stack takes k pending frames through
\* Device::receive / EthRxToken::consume, which reads the slot, runs the
\* stack's closure on it and then acknowledges it.
\* Result: [mac, sock, taken].
RECURSIVE poll(_, _, _)
poll(m, s, k) ==
    IF k = 0 \/ m.queue = <<>> THEN [mac |-> m, sock |-> s, taken |-> <<>>]
    ELSE LET f == Head(m.queue)
             s1 == IF RoutedToBitmapSocket(f.bytes)
                   THEN Append(s, UdpPayload(f.bytes)) ELSE s
             rest == poll(ack_rx(m), s1, k - 1)
         IN  [rest EXCEPT !.taken = <<f.id>> \o rest.taken]

\* Numbers of frames one poll may take: all that are pending, or fewer
PollCounts(m) == IF m.queue = <<>> THEN {0} ELSE 1..Len(m.queue)

\* process_packet and the caller's swap handling (main.rs:260-269, 309-317).
\* Result: [rx, hub, ret, panic].
HandleBitmap(r, h, data, t, oc) ==
    LET res == process_packet(r, h, data, t, oc)
    IN  [res EXCEPT !.hub = IF ~res.panic /\ res.ret
                            THEN swap_buffers(res.hub) ELSE res.hub]

\* The socket fallback loop: while let Ok((data, _)) = socket.recv()
RECURSIVE DrainSocket(_, _, _, _, _)
DrainSocket(r, h, q, t, oc) ==
    IF q = <<>> THEN [rx |-> r, hub |-> h, panic |-> FALSE]
    ELSE LET res == HandleBitmap(r, h, Head(q), t, oc)
         IN  IF res.panic THEN [rx |-> res.rx, hub |-> res.hub, panic |-> TRUE]
             ELSE DrainSocket(res.rx, res.hub, Tail(q), t, oc)

\* Ethernet + IPv4 + UDP frame around a payload, as a sender lays it out
Zeros(n) == [i \in 1..n |-> 0]

EthFrame(ethertype, ver_ihl, proto, dport, payload) ==
    Zeros(12) \o <<ethertype \div 256, ethertype % 256>>
        \o <<ver_ihl>> \o Zeros(8) \o <<proto>> \o Zeros(10)
        \o <<0, 0, dport \div 256, dport % 256, 0, 0, 0, 0>> \o payload

\* The image loaded at boot (from flash or the default one): 4x2 pixels
BootImage == [w |-> 4, len |-> 8, px |-> <<11, 12, 13, 14, 15, 16, 17, 18>>]

\* Frames the network delivers: a one-chunk 4x2 bitmap frame for port 7000,
\* an ARP frame, and a bitmap frame whose chunk index lies beyond the
\* image
BitmapFrame ==
    EthFrame(2048, 69, 17, BITMAP_PORT,
             Packet(MAGIC0, MAGIC1, 5, 0, 1, 4, 2, Triple(0)))
OtherFrame == EthFrame(2054, 0, 0, 0, <<>>)
FarChunkFrame ==
    EthFrame(2048, 69, 17, BITMAP_PORT,
             Packet(MAGIC0, MAGIC1, 6, 135, 255, 4, 2, Triple(0)))
SchedFrames == {BitmapFrame, OtherFrame, FarChunkFrame}

\* What the receive side of the main loop leaves alone
loopidle == <<last, arrived, run, tally, tftp_loader, swaplog, hubops, tx>>

Event(op, t, f) == [op |-> op, tick |-> t, frame |-> f]

\* State when the loop is entered: boot image set, written and swapped in
\* (main.rs:165-174), receiver and locals fresh
InitSched ==
    /\ SchedInit
    /\ rx = BitmapReceiver_new
    /\ hub = swap_buffers(
               write_img_data(set_img_param(Hub75_new, BootImage.w, BootImage.len),
                              0, BootImage.px, FALSE).hub)
    /\ time_ms = 0
    /\ panicked = FALSE
    /\ overflow_checks \in BOOLEAN
    /\ last = Op("new", <<>>, 0)
    /\ arrived = <<>>
    /\ run = NoRun
    /\ tally = NoTally
    /\ tftp_loader = TftpInit
    /\ swaplog = <<>>
    /\ hubops = 0

\* The MAC stores an arriving frame in the next free slot
Deliver(bytes) ==
    /\ Len(mac.queue) < NRXSLOTS
    /\ mac' = [mac EXCEPT !.queue =
                  Append(mac.queue, [id |-> hist.arrivals + 1, bytes |-> bytes])]
    /\ hist' = [hist EXCEPT !.arrivals = hist.arrivals + 1]
    /\ UNCHANGED <<rx, hub, time_ms, panicked, overflow_checks, sched, sock>>
    /\ UNCHANGED loopidle

\* A frame arrives at any point of the loop, outside the silent interval
FrameArrives(bytes) ==
    /\ hist.arrivals < MaxArrivals
    /\ (time_ms < QuietFrom \/ time_ms >= STREAMING_MS)
    /\ Deliver(bytes)

\* A frame arrives once the idle loop has come to the tick before MaxIdle
LateArrives(bytes) ==
    /\ hist.arrivals < MaxArrivals
    /\ time_ms >= MaxIdle - 1
    /\ Deliver(bytes)

\* While the raw drain runs, bitmap frames arrive as fast as it
\* acknowledges them
FloodArrives ==
    /\ hist.arrivals < MaxFlood
    /\ sched.pc \in {"drain", "drain_ack"}
    /\ Len(mac.queue) <= 1
    /\ Deliver(BitmapFrame)

\* Lines 232-247: sample the timer, advance time_ms, enter the first drain
LoopTop(fired, horizon) ==
    /\ ~panicked
    /\ sched.pc = "top"
    /\ fired => time_ms < horizon
    /\ time_ms' = IF fired THEN time_ms + 1 ELSE time_ms
    /\ sched' = [sched EXCEPT !.pc = "drain", !.ret = "flag",
                              !.timer_fired = fired, !.found = FALSE]
    /\ hist' = [hist EXCEPT !.drained = 0, !.ran = {},
                            !.ev = Event("top", time_ms', NoFrame)]
    /\ UNCHANGED <<rx, hub, panicked, overflow_checks, mac, sock>>
    /\ UNCHANGED loopidle

\* drain_raw_bitmap, lines 256-269: the pending frame is a bitmap frame; its
\* payload goes to the reassembler, a swap is applied if instructed
DrainPeek ==
    LET p == peek_rx(mac)
        res == HandleBitmap(rx, hub,
                   SubSeq(p.frame.bytes, ETH_IP_UDP_HEADER + 1, Len(p.frame.bytes)),
                   time_ms, overflow_checks)
    IN  /\ ~panicked
        /\ sched.pc = "drain"
        /\ p.some /\ is_bitmap_udp(p.frame.bytes)
        /\ mac' = p.mac
        /\ rx' = res.rx
        /\ hub' = res.hub
        /\ panicked' = res.panic
        /\ sched' = [sched EXCEPT !.pc = "drain_ack", !.found = TRUE,
                                  !.last_bitmap_packet_ms = time_ms]
        /\ hist' = [hist EXCEPT !.held = p.frame.id,
                                !.drained = hist.drained + 1,
                                !.rx_tick = time_ms,
                                !.ev = Event("raw", time_ms, p.frame)]
        /\ UNCHANGED <<time_ms, overflow_checks, sock>>
        /\ UNCHANGED loopidle

\* drain_raw_bitmap, line 270: device.ack_rx()
DrainAck ==
    /\ ~panicked
    /\ sched.pc = "drain_ack"
    /\ mac' = ack_rx(mac)
    /\ sched' = [sched EXCEPT !.pc = "drain"]
    /\ hist' = [hist EXCEPT !.held = 0,
                            !.acked = Append(hist.acked,
                                [id |-> hist.held, path |-> "raw",
                                 pending |-> mac.queue # <<>>,
                                 head |-> peek_rx(mac).frame.id]),
                            !.ev = Event("raw_ack", time_ms, peek_rx(mac).frame)]
    /\ UNCHANGED <<rx, hub, time_ms, panicked, overflow_checks, sock>>
    /\ UNCHANGED loopidle

\* drain_raw_bitmap, line 272: nothing pending or not a bitmap frame; the
\* macro ends and the code after it goes on (the burst counter advances
\* when the drain was the one at line 297)
DrainExit ==
    LET p == peek_rx(mac)
    IN  /\ ~panicked
        /\ sched.pc = "drain"
        /\ ~(p.some /\ is_bitmap_udp(p.frame.bytes))
        /\ mac' = p.mac
        /\ sched' = IF sched.ret = "burst"
                    THEN [sched EXCEPT !.pc = "burst", !.burst = sched.burst + 1]
                    ELSE [sched EXCEPT !.pc = sched.ret]
        /\ hist' = [hist EXCEPT !.ev = Event("drain_exit", time_ms, p.frame)]
        /\ UNCHANGED <<rx, hub, time_ms, panicked, overflow_checks, sock>>
        /\ UNCHANGED loopidle

\* Variant of Streaming that still holds at the 200th tick
Streaming_Inclusive(t, last_packet_ms) == t - last_packet_ms <= STREAMING_MS

\* The streaming flag: time_ms - last_bitmap_packet_ms < 200
Streaming(t, last_packet_ms) == t - last_packet_ms < STREAMING_MS

\* Line 286: let streaming = ...; the burst loop starts
ComputeFlag ==
    /\ ~panicked
    /\ sched.pc = "flag"
    /\ sched' = [sched EXCEPT !.pc = "burst", !.burst = 0,
                    !.streaming = Streaming(time_ms, sched.last_bitmap_packet_ms)]
    /\ hist' = [hist EXCEPT !.ev = Event("flag", time_ms, NoFrame)]
    /\ UNCHANGED <<rx, hub, time_ms, panicked, overflow_checks, mac, sock>>
    /\ UNCHANGED loopidle

\* Lines 288-289: the burst count is used up or nothing is pending
BurstEnd ==
    LET p == peek_rx(mac)
    IN  /\ ~panicked
        /\ sched.pc = "burst"
        /\ sched.burst >= BURST_MAX \/ ~p.some
        /\ mac' = IF sched.burst >= BURST_MAX THEN mac ELSE p.mac
        /\ sched' = [sched EXCEPT !.pc = "after"]
        /\ hist' = [hist EXCEPT !.ev = Event("burst_end", time_ms, NoFrame)]
        /\ UNCHANGED <<rx, hub, time_ms, panicked, overflow_checks, sock>>
        /\ UNCHANGED loopidle

\* Lines 289-297, streaming: the pending frame is acknowledged unread, then
\* the raw drain runs
BurstDiscard ==
    LET p == peek_rx(mac)
    IN  /\ ~panicked
        /\ sched.pc = "burst"
        /\ sched.burst < BURST_MAX /\ p.some
        /\ sched.streaming
        /\ mac' = ack_rx(p.mac)
        /\ sched' = [sched EXCEPT !.pc = "drain", !.ret = "burst", !.found = FALSE]
        /\ hist' = [hist EXCEPT !.drained = 0,
                                !.acked = Append(hist.acked,
                                    [id |-> p.frame.id, path |-> "discard",
                                     pending |-> p.mac.queue # <<>>,
                                     head |-> peek_rx(p.mac).frame.id]),
                                !.ev = Event("discard", time_ms, p.frame)]
        /\ UNCHANGED <<rx, hub, time_ms, panicked, overflow_checks, sock>>
        /\ UNCHANGED loopidle

\* The acknowledgments a poll made, in order
StackAcks(taken) ==
    [i \in 1..Len(taken) |->
        [id |-> taken[i], path |-> "stack", pending |-> TRUE, head |-> taken[i]]]

\* Lines 289-301, not streaming: iface.poll(time), then the raw drain
BurstPoll(k) ==
    LET p == peek_rx(mac)
        res == poll(p.mac, sock, k)
    IN  /\ ~panicked
        /\ sched.pc = "burst"
        /\ sched.burst < BURST_MAX /\ p.some
        /\ ~sched.streaming
        /\ mac' = res.mac
        /\ sock' = res.sock
        /\ sched' = [sched EXCEPT !.pc = "drain", !.ret = "sock", !.found = FALSE]
        /\ hist' = [hist EXCEPT !.drained = 0,
                                !.acked = hist.acked \o StackAcks(res.taken),
                                !.ev = Event("poll", time_ms, p.frame)]
        /\ UNCHANGED <<rx, hub, time_ms, panicked, overflow_checks>>
        /\ UNCHANGED loopidle

\* Lines 303-321: the socket fallback drains the bitmap socket; the burst
\* loop ends when neither drain got a packet
SocketFallback ==
    LET res == DrainSocket(rx, hub, sock, time_ms, overflow_checks)
        got_any == sched.found \/ sock # <<>>
    IN  /\ ~panicked
        /\ sched.pc = "sock"
        /\ rx' = res.rx
        /\ hub' = res.hub
        /\ panicked' = res.panic
        /\ sock' = <<>>
        /\ sched' = [sched EXCEPT
                        !.pc = IF got_any THEN "burst" ELSE "after",
                        !.burst = IF got_any THEN sched.burst + 1 ELSE sched.burst,
                        !.last_bitmap_packet_ms =
                            IF sock # <<>> THEN time_ms ELSE sched.last_bitmap_packet_ms]
        /\ hist' = [hist EXCEPT !.rx_tick = IF sock # <<>> THEN time_ms ELSE hist.rx_tick,
                                !.ev = Event("fallback", time_ms, NoFrame)]
        /\ UNCHANGED <<time_ms, overflow_checks, mac>>
        /\ UNCHANGED loopidle

\* Variant of SkipSlowPath without the streaming test
SkipSlowPath_IgnoreStreaming(streaming, timer_fired, t) ==
    ~timer_fired \/ t % SLOW_PERIOD_MS # 0

\* Variant of SkipSlowPath without the test of time_ms
SkipSlowPath_AnyTick(streaming, timer_fired, t) ==
    streaming \/ ~timer_fired

\* Lines 324-329: continue while streaming, or when the timer did not fire,
\* or when time_ms is off the slow-path period
SkipSlowPath(streaming, timer_fired, t) ==
    streaming \/ ~timer_fired \/ t % SLOW_PERIOD_MS # 0

\* Lines 324-329: the iteration ends here or goes on to the slow path
AfterBurst ==
    LET skip == SkipSlowPath(sched.streaming, sched.timer_fired, time_ms)
    IN  /\ ~panicked
        /\ sched.pc = "after"
        /\ sched' = [sched EXCEPT !.pc = IF skip THEN "top" ELSE "slow"]
        /\ hist' = [hist EXCEPT !.ev = Event(IF skip THEN "continue" ELSE "enter_slow",
                                             time_ms, NoFrame)]
        /\ UNCHANGED <<rx, hub, time_ms, panicked, overflow_checks, mac, sock>>
        /\ UNCHANGED loopidle

\* Events the DHCP socket reports to socket.poll()
DhcpEvents == {"None", "Configured", "Deconfigured"}

\* Lines 342-346, 376-381: the interface address after the DHCP event
AddrAfterDhcp(addr, event) ==
    IF event = "Configured" THEN "dhcp"
    ELSE IF event = "Deconfigured" THEN "unspecified"
    ELSE addr

\* Lines 385-394: at time_ms == 10000 an unspecified address is replaced by
\* 10.11.6.250/24
StaticFallback(addr, t) ==
    IF t = FALLBACK_MS /\ addr = "unspecified" THEN "fallback" ELSE addr

\* TftpConfigLoader::is_active
is_active(tftp) == tftp \in {"SendRrq", "WaitData"}

\* Lines 345-369: a Configured event starts the TFTP fetch unless the
\* loader is active or done
TftpAfterDhcp(tftp, event) ==
    IF event = "Configured" /\ ~is_active(tftp) /\ tftp # "Done"
    THEN "SendRrq" ELSE tftp

\* TftpConfigLoader::poll with no reply from the server and the 3000 ms
\* deadline not yet reached: the request is sent, then data is awaited
TftpPoll(tftp) == IF tftp = "SendRrq" THEN "WaitData" ELSE tftp

\* The collaborators lines 331-426 invoke, given the loader's state after
\* the DHCP step
SlowRan(tftp, streaming, t) ==
    {"mac_errors", "dhcp"}
        \cup (IF is_active(tftp) THEN {"tftp"} ELSE {})
        \cup (IF ~streaming /\ t % ANIMATION_MS = 0 THEN {"animation"} ELSE {})

\* Lines 331-521: error counters, DHCP, static fallback, TFTP, animation
\* tick (Animation::None: nothing to draw), telnet; then the raw drain
SlowCollaborators(event) ==
    /\ ~panicked
    /\ sched.pc = "slow"
    /\ sched' = [sched EXCEPT !.pc = "drain", !.ret = "poll2", !.found = FALSE,
                              !.tftp = TftpPoll(TftpAfterDhcp(sched.tftp, event)),
                              !.addr = StaticFallback(
                                           AddrAfterDhcp(sched.addr, event), time_ms)]
    /\ hist' = [hist EXCEPT !.drained = 0,
                            !.ran = SlowRan(TftpAfterDhcp(sched.tftp, event),
                                            sched.streaming, time_ms),
                            !.anim = IF "animation" \in
                                          SlowRan(TftpAfterDhcp(sched.tftp, event),
                                                  sched.streaming, time_ms)
                                     THEN time_ms ELSE hist.anim,
                            !.ev = Event("collaborators", time_ms, NoFrame)]
    /\ UNCHANGED <<rx, hub, time_ms, panicked, overflow_checks, mac, sock>>
    /\ UNCHANGED loopidle

\* Lines 522-550: iface.poll(time), the art-net socket, then the raw drain
PollArtnet(k) ==
    LET res == poll(mac, sock, k)
    IN  /\ ~panicked
        /\ sched.pc = "poll2"
        /\ mac' = res.mac
        /\ sock' = res.sock
        /\ sched' = [sched EXCEPT !.pc = "drain", !.ret = "poll3", !.found = FALSE]
        /\ hist' = [hist EXCEPT !.drained = 0,
                                !.acked = hist.acked \o StackAcks(res.taken),
                                !.ev = Event("poll_artnet", time_ms, NoFrame)]
        /\ UNCHANGED <<rx, hub, time_ms, panicked, overflow_checks>>
        /\ UNCHANGED loopidle

\* Lines 551-622: iface.poll(time), the HTTP sockets, the serial console;
\* the iteration ends
PollHttp(k) ==
    LET res == poll(mac, sock, k)
    IN  /\ ~panicked
        /\ sched.pc = "poll3"
        /\ mac' = res.mac
        /\ sock' = res.sock
        /\ sched' = [sched EXCEPT !.pc = "top"]
        /\ hist' = [hist EXCEPT !.acked = hist.acked \o StackAcks(res.taken),
                                !.ev = Event("poll_http", time_ms, NoFrame)]
        /\ UNCHANGED <<rx, hub, time_ms, panicked, overflow_checks>>
        /\ UNCHANGED loopidle

\* The steps of one loop iteration, the timer followed up to tick `horizon`
LoopStep(horizon) ==
    \/ \E fired \in BOOLEAN : LoopTop(fired, horizon)
    \/ DrainPeek
    \/ DrainAck
    \/ DrainExit
    \/ ComputeFlag
    \/ BurstEnd
    \/ BurstDiscard
    \/ \E k \in PollCounts(mac) : BurstPoll(k)
    \/ SocketFallback
    \/ AfterBurst
    \/ \E event \in DhcpEvents : SlowCollaborators(event)
    \/ \E k \in PollCounts(mac) : PollArtnet(k)
    \/ \E k \in PollCounts(mac) : PollHttp(k)

NextSched ==
    \/ LoopStep(STREAMING_MS + MaxLate)
    \/ \E bytes \in SchedFrames : FrameArrives(bytes)

\* The main loop with frames arriving at boot and after the streaming
\* timeout has run out
SpecSched == InitSched /\ [][NextSched]_vars

NextSlow ==
    \/ LoopStep(MaxIdle)
    \/ \E bytes \in SchedFrames : LateArrives(bytes)

\* The main loop idle from boot until an animation tick of the slow path,
\* then receiving frames
SpecSlow == InitSched /\ [][NextSlow]_vars

\* A frame arrives once the loop has come near the fallback tick
FallbackArrives(bytes) ==
    /\ hist.arrivals < MaxArrivals
    /\ time_ms >= FALLBACK_MS - FallbackLead
    /\ Deliver(bytes)

NextFallback ==
    \/ LoopStep(FALLBACK_MS + MaxLate)
    \/ \E bytes \in {BitmapFrame, OtherFrame} : FallbackArrives(bytes)

\* The main loop idle from boot until shortly before the tenth second,
\* then receiving frames
SpecFallback == InitSched /\ [][NextFallback]_vars

\* Frames of every kind is_bitmap_udp tells apart: IPv4, ARP and IPv6
\* EtherTypes; version/IHL bytes 0x45, 0x46 (one option word), 0x65 and
\* 0x05; UDP and TCP; ports 7000, 7001, 6744 (0x1A58) and 6999 (0x1B57);
\* payloads of 10, 9 and 0 bytes
ClassifyFrames ==
    {EthFrame(et, vi, pr, dp, pl) :
        et \in {2048, 2054, 34525}, vi \in {69, 70, 101, 5}, pr \in {17, 6},
        dp \in {BITMAP_PORT, 7001, 6744, 6999},
        pl \in {Packet(MAGIC0, MAGIC1, 5, 0, 1, 4, 2, <<>>),
                 <<MAGIC0, MAGIC1, 5, 0, 0, 1, 4, 0, 2>>, <<>>}}

\* One frame arrives while the loop starts up
FirstArrives(bytes) ==
    /\ hist.arrivals = 0
    /\ Deliver(bytes)

NextClassify ==
    \/ \E fired \in BOOLEAN : LoopTop(fired, MaxTime)
    \/ DrainPeek
    \/ DrainAck
    \/ DrainExit
    \/ \E bytes \in ClassifyFrames : FirstArrives(bytes)

\* The first raw drain of the main loop deciding on one frame of any kind
SpecClassify == InitSched /\ [][NextClassify]_vars

\* Chunk 0 of 2 of the 4x2 frames 5 and 6, and the one-chunk frame 5
PartialFrames ==
    {EthFrame(2048, 69, 17, BITMAP_PORT,
              Packet(MAGIC0, MAGIC1, 5, 0, 2, 4, 2, Triple(0))),
     EthFrame(2048, 69, 17, BITMAP_PORT,
              Packet(MAGIC0, MAGIC1, 6, 0, 2, 4, 2, Triple(1))),
     BitmapFrame}

NextPartial ==
    \/ \E fired \in BOOLEAN : LoopTop(fired, MaxTime)
    \/ DrainPeek
    \/ DrainAck
    \/ DrainExit
    \/ \E bytes \in PartialFrames : FrameArrives(bytes)

\* The first raw drain of the main loop receiving frames that the sender
\* leaves unfinished
SpecPartial == InitSched /\ [][NextPartial]_vars

\* ------------------------------------------------------------------------
\* TFTP config loader (tftp_config.rs)
\* ------------------------------------------------------------------------
\* TftpConfigLoader::start: block 1 expected, length 0, state SendRrq
start(l, gateway) ==
    [l EXCEPT !.gateway = gateway, !.server_tid = 0, !.block = 1, !.len = 0,
              !.buf = <<>>, !.state = "SendRrq"]

\* UdpSocket::close: unbound, buffers emptied
SocketClose(s) == [s EXCEPT !.open = FALSE, !.rx = <<>>, !.tx_full = FALSE]

\* Variant of CopyLen without the bound of the buffer
CopyLen_Unbounded(payload_len, len) == payload_len

\* copy_len = payload_len.min(MAX_CONFIG_SIZE - self.len)
CopyLen(payload_len, len) == Min(payload_len, MAX_CONFIG_SIZE - len)

\* pkt_opcode == OPCODE_DATA && pkt_block == self.block
Expected(opcode, pkt_block, block) == opcode = OPCODE_DATA /\ pkt_block = block

\* Lines 107-179, state WaitData with a datagram of at least 4 bytes
\* received.  Result: [self, socket, ret, panic, took].
GotPacket(l, s, data, t, oc) ==
    LET opcode == data[2]
        pkt_block == data[3] * 256 + data[4]
        payload == SubSeq(data, 5, Len(data))
        copy_len == CopyLen(Len(payload), l.len)
        l1 == IF Expected(opcode, pkt_block, l.block)
              THEN [l EXCEPT !.buf = l.buf \o SubSeq(payload, 1, copy_len),
                             !.len = l.len + copy_len]
              ELSE l
        took == IF Expected(opcode, pkt_block, l.block)
                THEN <<[block |-> pkt_block, expected |-> l.block]>> ELSE <<>>
    IN  IF Expected(opcode, pkt_block, l.block)
        THEN IF Len(payload) < 512
             THEN [self |-> [l1 EXCEPT !.server_tid = IF l.server_tid = 0 THEN 1
                                                      ELSE l.server_tid,
                                       !.state = "Done"],
                   socket |-> SocketClose(s), ret |-> TRUE, panic |-> FALSE,
                   took |-> took]
             ELSE IF oc /\ l.block = U16_MAX
             THEN [self |-> l1, socket |-> s, ret |-> FALSE, panic |-> TRUE,
                   took |-> took]
             ELSE [self |-> [l1 EXCEPT !.server_tid = IF l.server_tid = 0 THEN 1
                                                      ELSE l.server_tid,
                                       !.block = (l.block + 1) % (U16_MAX + 1),
                                       !.deadline_ms = t + TIMEOUT_MS],
                   socket |-> s, ret |-> FALSE, panic |-> FALSE, took |-> took]
        ELSE IF opcode = OPCODE_ERROR
        THEN [self |-> [l EXCEPT !.state = "Failed"], socket |-> SocketClose(s),
              ret |-> FALSE, panic |-> FALSE, took |-> <<>>]
        ELSE [self |-> l, socket |-> s, ret |-> FALSE, panic |-> FALSE,
              took |-> <<>>]

\* socket.send_slice(&pkt, endpoint).is_ok(): the 30-byte request fits the
\* buffer once can_send() holds; the socket refuses an endpoint whose
\* address is unspecified
SendOk(gateway) == gateway # UNSPECIFIED

\* TftpConfigLoader::poll(socket, time_ms).  bind(6900) on a closed socket
\* does not fail.  Result: [self, socket, ret, panic, took].
TftpLoaderPoll(l, s, t, oc) ==
    LET same == [self |-> l, socket |-> s, ret |-> FALSE, panic |-> FALSE,
                 took |-> <<>>]
    IN  IF l.state = "SendRrq"
        THEN LET s1 == [s EXCEPT !.open = TRUE]
             IN  IF ~s1.tx_full /\ SendOk(l.gateway)
                 THEN [same EXCEPT !.self = [l EXCEPT !.deadline_ms = t + TIMEOUT_MS,
                                                      !.state = "WaitData"],
                                   !.socket = s1]
                 ELSE [same EXCEPT !.socket = s1]
        ELSE IF l.state = "WaitData"
        THEN IF t > l.deadline_ms
             THEN [same EXCEPT !.self = [l EXCEPT !.state = "Failed"],
                               !.socket = SocketClose(s)]
             ELSE IF s.rx # <<>>
             THEN LET data == Head(s.rx)
                      s1 == [s EXCEPT !.rx = Tail(s.rx)]
                  IN  IF Len(data) >= 4 THEN GotPacket(l, s1, data, t, oc)
                      ELSE [same EXCEPT !.socket = s1]
             ELSE same
        ELSE same

\* n bytes of a config file
Fill(n) == [i \in 1..n |-> 35]

\* Datagrams a TFTP server (or anyone else) sends to port 6900: DATA blocks
\* 1 and 2 with a short, a full and an oversized payload, an ERROR, an ACK
\* and a datagram of 3 bytes
ServerPackets ==
    {<<0, OPCODE_DATA, 0, b>> \o Fill(n) : b \in {1, 2}, n \in {3, 512, 600}}
        \cup {<<0, OPCODE_ERROR, 0, 1>>, <<0, 4, 0, 1>>, <<0, OPCODE_DATA, 0>>}

\* The server address of DHCP option 66, which the DHCP server is free to
\* set to anything, or the hardcoded 10.11.6.65
Gateways == {"10.11.6.65", UNSPECIFIED}

\* tftp_loader.start(server, fname) (main.rs:371), made when the loader is
\* neither active nor done
TftpStart(gateway) ==
    /\ ~panicked
    /\ ~is_active(tftp_loader.self.state) /\ tftp_loader.self.state # "Done"
    /\ tftp_loader.starts < MaxStarts
    /\ tftp_loader' = [tftp_loader EXCEPT !.self = start(tftp_loader.self, gateway),
                                          !.took = <<>>,
                                          !.starts = tftp_loader.starts + 1]
    /\ UNCHANGED <<rx, hub, time_ms, panicked, overflow_checks, last, arrived,
                   run, tally, swaplog, hubops>>
    /\ UNCHANGED schedvars

\* One call tftp_loader.poll(socket, time_ms)
TftpPollCall ==
    LET res == TftpLoaderPoll(tftp_loader.self, tftp_loader.socket, time_ms,
                              overflow_checks)
    IN  /\ ~panicked
        /\ panicked' = res.panic
        /\ tftp_loader' = [tftp_loader EXCEPT
                               !.self = res.self,
                               !.socket = res.socket,
                               !.ret = res.ret,
                               !.calls = 1 - tftp_loader.calls,
                               !.took = tftp_loader.took \o res.took]
        /\ UNCHANGED <<rx, hub, time_ms, overflow_checks, last, arrived,
                       run, tally, swaplog, hubops>>
        /\ UNCHANGED schedvars

\* The values time_ms takes next between two calls of poll: an idle loader
\* is followed for MaxQuiet ticks; a waiting one tick by tick while a reply
\* may come, then at its deadline and one tick after it
NextTimes(l, t) ==
    IF l.state = "WaitData"
    THEN (IF l.deadline_ms - t > TIMEOUT_MS - MaxReplyDelay THEN {t + 1} ELSE {})
             \cup (IF t < l.deadline_ms THEN {l.deadline_ms} ELSE {})
             \cup (IF t = l.deadline_ms THEN {t + 1} ELSE {})
    ELSE IF t < MaxQuiet THEN {t + 1} ELSE {}

\* Time passes between two calls of poll
TftpTick ==
    /\ ~panicked
    /\ \E t \in NextTimes(tftp_loader.self, time_ms) : time_ms' = t
    /\ UNCHANGED <<rx, hub, panicked, overflow_checks, last, arrived,
                   run, tally, tftp_loader, swaplog, hubops>>
    /\ UNCHANGED schedvars

\* A datagram for port 6900 is queued in the open socket, within
\* MaxReplyDelay ticks after the loader's deadline was set
TftpReply(data) ==
    /\ tftp_loader.socket.open /\ tftp_loader.socket.rx = <<>>
    /\ tftp_loader.replies < MaxReplies
    /\ tftp_loader.self.deadline_ms - time_ms >= TIMEOUT_MS - MaxReplyDelay
    /\ tftp_loader' = [tftp_loader EXCEPT !.socket.rx = <<data>>,
                                          !.replies = tftp_loader.replies + 1]
    /\ UNCHANGED <<rx, hub, time_ms, panicked, overflow_checks, last, arrived,
                   run, tally, swaplog, hubops>>
    /\ UNCHANGED schedvars

\* The transmit buffer of the open socket fills up or drains (the
\* interface decides when queued datagrams leave)
TftpTxBuffer(full) ==
    /\ tftp_loader.socket.open
    /\ tftp_loader.socket.tx_full # full
    /\ tftp_loader' = [tftp_loader EXCEPT !.socket.tx_full = full]
    /\ UNCHANGED <<rx, hub, time_ms, panicked, overflow_checks, last, arrived,
                   run, tally, swaplog, hubops>>
    /\ UNCHANGED schedvars

NextTftp ==
    \/ \E gateway \in Gateways : TftpStart(gateway)
    \/ TftpPollCall
    \/ TftpTick
    \/ \E data \in ServerPackets : TftpReply(data)
    \/ \E full \in BOOLEAN : TftpTxBuffer(full)

\* The loader started and polled again and again while time advances; the
\* socket and the server are free to do anything
SpecTftp ==
    /\ Init
    /\ [][NextTftp]_vars
    /\ WF_vars(TftpPollCall)
    /\ WF_vars(TftpTick)

\* ------------------------------------------------------------------------
\* Transmit (EthTxToken::consume, ethernet.rs:139-172)
\* ------------------------------------------------------------------------
\* Frames the stack hands to a transmit token
TxPayloads == {<<1>>, <<2, 3>>, <<4, 5, 6>>}

nontx == <<rx, hub, time_ms, panicked, overflow_checks, last, arrived, run, tally,
           tftp_loader, swaplog, hubops, sched, mac, sock, hist>>

\* The stack calls consume(timestamp, len, f); f writes `payload`
TxConsume(payload) ==
    /\ tx.pc = "idle"
    /\ Len(tx.sent) < MaxTx
    /\ tx' = [tx EXCEPT !.pc = "wait", !.payload = payload]
    /\ UNCHANGED nontx

\* Line 147: while sram_reader_ready == 0 {} -- one more read of 0
TxSpin ==
    /\ tx.pc = "wait"
    /\ tx.ready = 0
    /\ tx' = [tx EXCEPT !.spins = 1 - tx.spins]
    /\ UNCHANGED nontx

\* Line 168: SLOT = (SLOT + 1) % 2
NextSlot(slot) == (slot + 1) % NTXSLOTS

\* Lines 147-171: ready was read as 1; the payload is copied to the current
\* TX slot, slot, length and start are written, SLOT advances.  The MAC is
\* busy or still ready afterwards.
TxSend(busy) ==
    /\ tx.pc = "wait"
    /\ tx.ready = 1
    /\ tx' = [tx EXCEPT !.pc = "idle",
                        !.slots[tx.SLOT] = tx.payload,
                        !.reader_slot = tx.SLOT,
                        !.reader_length = Len(tx.payload),
                        !.SLOT = NextSlot(tx.SLOT),
                        !.sent = Append(tx.sent, tx.SLOT),
                        !.spins = 0,
                        !.ready = IF busy THEN 0 ELSE 1]
    /\ UNCHANGED nontx

\* The MAC finishes a transmission and asserts ready again; a wedged MAC
\* never does
MacReady ==
    /\ tx.ready = 0
    /\ tx' = [tx EXCEPT !.ready = 1]
    /\ UNCHANGED nontx

NextTx ==
    \/ \E payload \in TxPayloads : TxConsume(payload)
    \/ TxSpin
    \/ \E busy \in BOOLEAN : TxSend(busy)
    \/ MacReady

\* Transmissions requested by the stack; the CPU keeps executing consume,
\* the MAC is free never to become ready
SpecTx ==
    /\ Init
    /\ [][NextTx]_vars
    /\ WF_vars(TxSpin)
    /\ WF_vars(\E busy \in BOOLEAN : TxSend(busy))

NextFlood ==
    \/ \E fired \in BOOLEAN : LoopTop(fired, MaxTime)
    \/ DrainPeek
    \/ DrainAck
    \/ DrainExit
    \/ ComputeFlag
    \/ BurstEnd
    \/ AfterBurst
    \/ FloodArrives

\* The first ticks of the main loop under a flood of bitmap frames
SpecFlood == InitSched /\ [][NextFlood]_vars

\* ========================================================================
\* Claims
\* ========================================================================
IsPacketStep == last'.op = "process_packet" /\ last' # last

\* Valid magic and a full header
HasHeader(data) ==
    Len(data) >= HEADER_SIZE /\ data[1] = MAGIC0 /\ data[2] = MAGIC1

\* C1: when process_packet is fed one well-formed chunk for each index
\* 0..n-1 of one frame (n in 1..32, dimensions matching the image), in any
\* order, completion is reported on exactly one of those n calls and
\* frames_completed grows by exactly 1.
C1_CompletionExactlyOnce ==
    (run.id # -1 /\ run.total \in 1..32 /\ run.seen = 0..(run.total - 1))
        => run.completions = 1

C3_DuplicateIdempotent ==
    (last.op = "process_packet" /\ last.dup)
        => /\ ~last.completed => rx.chunks_count = Cardinality(Range(last.arrived))
           /\ last.completed => (0..(rx.total_chunks - 1)) \subseteq Range(last.arrived)

\* A returning process_packet call that adopts a new frame id while the
\* previous frame has at least one chunk recorded
NewIdOverRecorded ==
    /\ IsPacketStep
    /\ rx'.current_frame_id # rx.current_frame_id
    /\ rx.chunks_count >= 1

RegionAddr(b) == FB_BASE_WORDS + b * FB_HALF_WORDS

\* C5: fb_base always addresses the display-side half and the write-side is
\* the other half; a swap_buffers call exchanges the roles and the register
\* together, and two consecutive swap_buffers calls restore roles and
\* register.
C5_RolesAndBase ==
    /\ hub.fb_base = RegionAddr(hub.display_buffer)
    /\ hub.display_buffer \in {0, 1}
    /\ hub.hub75_data = 1 - hub.display_buffer
    /\ Len(swaplog) >= 1 =>
          /\ hub.hub75_data = swaplog[Len(swaplog)][2]
          /\ hub.display_buffer = swaplog[Len(swaplog)][1]
          /\ hub.fb_base # swaplog[Len(swaplog)][3]
    /\ Len(swaplog) = 2 => Roles(hub) = swaplog[1]

\* C5 witness: two swap_buffers calls in a row, the second made while buf1
\* was on display
C5_Witness ==
    /\ last.op = "swap_buffers"
    /\ Len(swaplog) = 2
    /\ swaplog[2][2] = 1

\* C6: write_img_data leaves every word of the half that is display-side at
\* the time of the call as it was, whatever the offset and the pixels; no
\* operation writes into the half that is display-side once it is done, so
\* what is displayed changes only by the roles being exchanged.
C6_DisplaySideUntouched ==
    [][/\ last'.op = "write_img_data" /\ last' # last =>
            /\ hub'.mem[hub.display_buffer] = hub.mem[hub.display_buffer]
            /\ hub'.display_buffer = hub.display_buffer
       /\ hub'.mem[hub'.display_buffer] = hub.mem[hub'.display_buffer]]_vars

\* C6 witness: a direct write_img_data call that stored words while the
\* display-side half held words of its own
C6_Witness ==
    /\ last.op = "write_img_data"
    /\ ~panicked
    /\ hub.mem[hub.hub75_data] # <<>>
    /\ hub.mem[hub.display_buffer] # <<>>
    /\ hub.mem[hub.hub75_data] # hub.mem[hub.display_buffer]

\* C7: write_img_data(offset, pixels), called directly or by process_packet
\* with offset = chunk_index * 487, returns normally and leaves every
\* write-side word at an index >= the configured pixel count as it was, for
\* every offset, also one beyond the count or beyond the half.
C7_WriteClipped ==
    [][(last'.op \in {"write_img_data", "process_packet"} /\ last' # last) =>
        /\ ~panicked'
        /\ \A i \in DOMAIN hub'.mem[hub'.hub75_data] :
              i >= hub.length =>
                 /\ i \in DOMAIN hub.mem[hub'.hub75_data]
                 /\ hub'.mem[hub'.hub75_data][i] = hub.mem[hub'.hub75_data][i]]_vars

\* C8: process_packet returns normally on every payload: no panic, no
\* arithmetic fault, no out-of-range access.
C8_NeverPanics ==
    last.op = "process_packet" => ~panicked

\* C9: a payload with valid magic whose total is 0 or whose chunk index is
\* >= its total leaves frame id, received-chunk record, expected total and
\* width/height unchanged, writes nothing, returns false, and of the outcome
\* counters increments only packets_bad_header.
C9_BadChunkFieldsRejected ==
    [][(/\ IsPacketStep
        /\ Len(last'.data) >= 6
        /\ last'.data[1] = MAGIC0 /\ last'.data[2] = MAGIC1
        /\ (last'.data[6] = 0 \/ last'.data[5] >= last'.data[6]))
       =>
       /\ rx'.current_frame_id = rx.current_frame_id
       /\ rx'.chunks_count = rx.chunks_count
       /\ rx'.total_chunks = rx.total_chunks
       /\ rx'.width = rx.width /\ rx'.height = rx.height
       /\ hub' = hub
       /\ ~last'.ret /\ ~panicked'
       /\ rx'.stats.packets_bad_header = rx.stats.packets_bad_header + 1
       /\ rx'.stats.packets_valid = rx.stats.packets_valid
       /\ rx'.stats.packets_bad_magic = rx.stats.packets_bad_magic
       /\ rx'.stats.frames_completed = rx.stats.frames_completed
       /\ rx'.stats.frames_partial = rx.stats.frames_partial
       /\ rx'.stats.frames_dropped = rx.stats.frames_dropped]_vars

\* C9 witness: a full header with chunk index = total rejected while a frame
\* is part-way received and its words are in the write-side half
C9_Witness ==
    /\ last.op = "process_packet"
    /\ HasHeader(last.data)
    /\ last.data[6] # 0 /\ last.data[5] >= last.data[6]
    /\ rx.chunks_count > 0
    /\ rx.stats.packets_bad_header = 1
    /\ hub.mem[hub.hub75_data] # <<>>

Assembly(r) ==
    <<r.current_frame_id, r.chunks_count, r.total_chunks, r.width, r.height,
      r.last_complete_ms>>

\* C11: a payload shorter than 10 bytes increments packets_bad_header, a
\* payload of at least 10 bytes whose first two bytes are not 0x42 0x4D
\* increments packets_bad_magic; either way process_packet returns false and
\* leaves the assembly state and both framebuffer halves unchanged.
C11_ShortOrBadMagicRejected ==
    [][(IsPacketStep /\ ~HasHeader(last'.data)) =>
        /\ ~last'.ret /\ ~panicked'
        /\ Assembly(rx') = Assembly(rx)
        /\ hub' = hub
        /\ rx'.stats.packets_valid = rx.stats.packets_valid
        /\ IF Len(last'.data) < 10
           THEN /\ rx'.stats.packets_bad_header = rx.stats.packets_bad_header + 1
                /\ rx'.stats.packets_bad_magic = rx.stats.packets_bad_magic
           ELSE /\ rx'.stats.packets_bad_magic = rx.stats.packets_bad_magic + 1
                /\ rx'.stats.packets_bad_header = rx.stats.packets_bad_header]_vars

\* C11 witness: a 13-byte payload with a wrong second magic byte rejected
\* after a truncated payload, while a frame is part-way received and its
\* words are in the write-side half
C11_Witness ==
    /\ last.op = "process_packet"
    /\ Len(last.data) >= 10 /\ last.data[1] = MAGIC0 /\ last.data[2] # MAGIC1
    /\ rx.stats.packets_bad_magic = 1
    /\ rx.stats.packets_bad_header = 1
    /\ rx.chunks_count > 0
    /\ hub.mem[hub.hub75_data] # <<>>

\* C12: process_packet returns true exactly when that same call
\* incremented frames_completed or frames_partial, and returns false in every
\* other case (every rejected packet, every frame-dropped transition that
\* does not itself complete a frame).
C12_ReturnIffCompletedOrPartial ==
    [][IsPacketStep =>
        /\ (~panicked' /\ last'.ret) <=>
              (\/ rx'.stats.frames_completed = rx.stats.frames_completed + 1
               \/ rx'.stats.frames_partial = rx.stats.frames_partial + 1)
        /\ (~last'.stored \/ (last'.dropped /\ ~last'.completed))
              => ~last'.ret]_vars

\* A returning or panicking process_packet call that adopts a frame id
\* different from the tracked one
AdoptsNewId ==
    /\ IsPacketStep
    /\ rx'.current_frame_id # rx.current_frame_id

\* C13: when an accepted packet carries a frame id different from the
\* tracked one, the old frame with recorded chunks is finalized (the half
\* it was written to goes on display as it is) or dropped, the tracked id,
\* total, width and height become the packet's, and the chunk count restarts
\* from empty: after the call it holds the new packet's chunk alone, and
\* completion of the new frame is decided without the old frame's chunks.
C13_NewIdFinalizesThenResets ==
    [][AdoptsNewId =>
        LET d == last'.data
        IN  /\ rx'.current_frame_id = from_le_bytes(d[3], d[4])
            /\ rx'.total_chunks = d[6]
            /\ rx'.width = from_le_bytes(d[7], d[8])
            /\ rx'.height = from_le_bytes(d[9], d[10])
            /\ rx.chunks_count >= 1 =>
                  (last'.partial # last'.dropped)
            /\ rx.chunks_count = 0 => (~last'.partial /\ ~last'.dropped)
            /\ last'.partial =>
                  /\ hub'.display_buffer = hub.hub75_data
                  /\ hub'.mem[hub'.display_buffer] = hub.mem[hub.hub75_data]
            /\ ~last'.partial => Roles(hub') = Roles(hub)
            /\ ~panicked' =>
                  /\ rx'.stats.chunks_received = 1
                  /\ last'.arrived = <<d[5]>>
                  /\ last'.completed <=> (d[5] = d[6] - 1 \/ d[6] = 1)
                  /\ rx'.chunks_count = IF last'.completed THEN 0 ELSE 1]_vars

\* C13 witness: a new frame id adopted over a part-way received frame that
\* was finalized by a partial swap; the new frame holds one chunk
C13_Witness ==
    /\ last.op = "process_packet" /\ ~panicked
    /\ last.partial /\ ~last.completed
    /\ rx.chunks_count = 1
    /\ rx.current_frame_id = from_le_bytes(last.data[3], last.data[4])
    /\ hub.mem[hub.display_buffer] # <<>>

\* Events at which the main loop acts on the streaming flag
StreamingOps == {"discard"}
StackOps == {"poll", "fallback", "poll_artnet", "poll_http"}
SlowOps == {"enter_slow", "collaborators"}

\* A step of the main loop (every one moves its position)
IsLoopStep == sched' # sched

\* C14 (as claimed): when the most recent bitmap packet was processed at tick
\* T, every decision of the main loop at a tick t in T..T+199 is the
\* streaming one (discard, skip the collaborators) and every decision at
\* t >= T+200 is the non-streaming one.
C14_DecisionsFollowLastPacket ==
    [][(/\ IsLoopStep
        /\ hist.rx_tick >= 0
        /\ hist'.ev.op \in StreamingOps \cup StackOps \cup SlowOps)
       => (hist'.ev.op \in StreamingOps
              <=> time_ms - hist.rx_tick < STREAMING_MS)]_vars

\* C14 (amended): the flag is computed once per iteration, after the first
\* raw drain; when a bitmap packet has been processed before, the most
\* recent one at tick T, the flag computed at tick t is true for t in
\* T..T+199 and false for t >= T+200.  Every decision of that iteration
\* follows this value: a packet processed later in the same iteration, by
\* the burst loop's drain or the socket fallback, changes the flag of the
\* next iteration only.
C14_FlagPerIteration ==
    /\ (hist.ev.op = "flag" /\ hist.rx_tick >= 0) =>
          /\ hist.rx_tick <= time_ms
          /\ sched.streaming <=> time_ms - hist.rx_tick < STREAMING_MS
    /\ hist.ev.op \in StreamingOps => sched.streaming
    /\ hist.ev.op \in StackOps \cup SlowOps => ~sched.streaming

\* C14 witness: the flag computed 200 ticks after the last packet, which was
\* processed at tick 1, is false
C14_Witness ==
    /\ hist.ev.op = "flag"
    /\ hist.rx_tick = 1
    /\ time_ms = hist.rx_tick + STREAMING_MS
    /\ ~sched.streaming

\* C15: the streaming flag is true only if a bitmap packet has been drained
\* within the previous 200 ms; from power-up until the first bitmap packet
\* is drained it is false.
C15_StreamingOnlyAfterPacket ==
    hist.ev.op = "flag" =>
        (sched.streaming <=>
            (hist.rx_tick >= 0 /\ time_ms - hist.rx_tick < STREAMING_MS))

\* The rest of an iteration whose flag is true: the burst loop with its
\* drains, and the test after it
InStreamingIteration ==
    /\ sched.streaming
    /\ \/ sched.pc \in {"burst", "after"}
       \/ sched.pc \in {"drain", "drain_ack"} /\ sched.ret = "burst"

\* C16: in an iteration whose streaming flag is true the protocol stack's
\* poll and the other collaborators are never invoked: a frame pending at
\* the burst loop is acknowledged and discarded without being read, and the
\* iteration ends right after the burst loop.
C16_StreamingBypassesStack ==
    [][(IsLoopStep /\ InStreamingIteration) =>
        /\ hist'.ev.op \notin StackOps \cup SlowOps
        /\ sock' = sock
        /\ (sched.pc = "burst" /\ mac.queue # <<>> /\ sched.burst < BURST_MAX) =>
              /\ hist'.ev.op = "discard"
              /\ mac'.queue = Tail(mac.queue)
              /\ hist'.acked = Append(hist.acked,
                     [id |-> Head(mac.queue).id, path |-> "discard",
                      pending |-> TRUE, head |-> Head(mac.queue).id])
              /\ rx' = rx /\ hub' = hub
        /\ sched.pc = "after" => sched'.pc = "top"]_vars

\* C16 witness: a streaming iteration on a slow-path tick ended right after
\* the burst loop, having discarded an ARP frame
C16_Witness ==
    /\ hist.ev.op = "continue"
    /\ sched.streaming /\ sched.timer_fired
    /\ time_ms % SLOW_PERIOD_MS = 0 /\ time_ms > 0
    /\ \E i \in DOMAIN hist.acked : hist.acked[i].path = "discard"

\* C17: every frame the receive ring delivered is either still pending or
\* has been acknowledged exactly once, by one path (raw drain, streaming
\* discard or the stack's receive token); every acknowledgment was issued
\* with a frame pending, for the frame that had been peeked, and for the raw
\* drain for the frame whose payload had been handed to the reassembler.
C17_OneConsumerOneAck ==
    /\ hist.arrivals = Len(mac.queue) + Len(hist.acked)
    /\ \A i, j \in DOMAIN hist.acked :
          hist.acked[i].id = hist.acked[j].id => i = j
    /\ \A i \in DOMAIN hist.acked :
          /\ hist.acked[i].pending
          /\ hist.acked[i].head = hist.acked[i].id
          /\ hist.acked[i].id \in 1..hist.arrivals
    /\ \A i \in DOMAIN mac.queue :
          \A j \in DOMAIN hist.acked : mac.queue[i].id # hist.acked[j].id
    /\ hist.held # 0 =>
          /\ sched.pc = "drain_ack"
          /\ mac.queue # <<>> /\ Head(mac.queue).id = hist.held

\* C17 witness: three frames delivered, one consumed by each path
C17_Witness ==
    /\ Len(hist.acked) = 3
    /\ {hist.acked[i].path : i \in DOMAIN hist.acked} = {"raw", "discard", "stack"}

\* C18: peek_rx changes neither the current slot nor whether a frame is
\* pending; while a frame is pending and no acknowledgment is made, the
\* current slot and its frame stay the same whatever else happens (peeks,
\* arrivals); the current slot advances only with an acknowledgment (ack_rx
\* or the stack's RxToken::consume).
C18_PeekDoesNotConsume ==
    [][/\ (IsLoopStep /\ hist'.ev.op \in {"raw", "drain_exit", "burst_end"})
            => mac' = mac
       /\ (mac.queue # <<>> /\ hist'.acked = hist.acked) =>
             /\ mac'.slot = mac.slot
             /\ mac'.queue # <<>>
             /\ Head(mac'.queue) = Head(mac.queue)
       /\ mac'.slot # mac.slot => Len(hist'.acked) > Len(hist.acked)]_vars

\* C18 witness: the raw drain peeked an ARP frame and left it in its slot,
\* the ring having advanced before
C18_Witness ==
    /\ hist.ev.op = "drain_exit"
    /\ hist.ev.frame # NoFrame
    /\ mac.queue # <<>> /\ Head(mac.queue) = hist.ev.frame
    /\ mac.slot > 0

\* C19: no bitmap datagram consumed by the stack is still queued in the
\* bitmap socket when the raw drain processes a frame, nor when an
\* iteration of the main loop begins.
C19_SocketDrainedAfterPoll ==
    hist.ev.op \in {"raw", "top"} => sock = <<>>

\* C20: one invocation of the raw drain processes at most a fixed number of
\* frames (the burst count, 50) before it ends, also when bitmap frames keep
\* arriving as fast as they are acknowledged.
C20_DrainBounded ==
    hist.drained <= BURST_MAX

C22_TransmitTerminates ==
    /\ (tx.pc = "wait") ~> (tx.pc = "idle")
    /\ [](\A i \in DOMAIN tx.sent : tx.sent[i] = (i - 1) % 2)
    /\ [][tx'.sent # tx.sent =>
            /\ tx'.slots[tx.SLOT] = tx.payload
            /\ tx'.reader_slot = tx.SLOT
            /\ tx'.reader_length = Len(tx.payload)]_vars

\* C22, the part that holds: with ready asserted the payload is copied to
\* the current TX slot, whose index alternates 0,1,0,1
C22_SlotsAlternate ==
    /\ \A i \in DOMAIN tx.sent : tx.sent[i] = (i - 1) % 2
    /\ (tx.pc = "idle" /\ tx.sent # <<>>) =>
          /\ tx.slots[tx.sent[Len(tx.sent)]] = tx.payload
          /\ tx.reader_slot = tx.sent[Len(tx.sent)]
          /\ tx.reader_length = Len(tx.payload)

\* Word of the j-th whole RGB triple (j from 0) of a payload: b<<16 | g<<8 | r
TripleWord(data, j) ==
    data[HEADER_SIZE + 3 * j + 3] * 65536 + data[HEADER_SIZE + 3 * j + 2] * 256
        + data[HEADER_SIZE + 3 * j + 1]

\* C23: for an accepted chunk with index i whose payload holds k whole RGB
\* triples, write-side offset i*487 + j holds the word b<<16 | g<<8 | r of
\* triple j for every j < k within the configured bound, trailing bytes that
\* form no whole triple are ignored, and every write-side word outside
\* [i*487, i*487 + k) keeps its previous value.
C23_ChunkWrittenAtOffset ==
    [][(IsPacketStep /\ last'.stored) =>
        LET d == last'.data
            off == d[5] * 487
            k == (Len(d) - HEADER_SIZE) \div 3
            w == hub'.hub75_data
        IN  /\ \A j \in 0..(k - 1) :
                  off + j < hub.length =>
                     /\ off + j \in DOMAIN hub'.mem[w]
                     /\ hub'.mem[w][off + j] = TripleWord(d, j)
            /\ \A idx \in DOMAIN hub'.mem[w] :
                  (idx < off \/ idx >= off + k) =>
                     /\ idx \in DOMAIN hub.mem[w]
                     /\ hub'.mem[w][idx] = hub.mem[w][idx]
            /\ DOMAIN hub.mem[w] \subseteq DOMAIN hub'.mem[w]
            /\ hub'.mem[hub'.display_buffer] = hub.mem[hub'.display_buffer]]_vars

\* C23 witness: chunk 0 with two whole triples and one trailing byte written
\* at offsets 0 and 1 while the word of chunk 1, received before, is still
\* at offset 487
C23_Witness ==
    /\ last.op = "process_packet" /\ last.stored
    /\ Len(last.data) = HEADER_SIZE + 7
    /\ hub.length = 512
    /\ DOMAIN hub.mem[hub.hub75_data] = {0, 1, 487}
    /\ hub.mem[hub.hub75_data][1] = 6 * 65536 + 5 * 256 + 4

\* Packed words of a red (FF 00 00) and of a blue (00 00 FF) triple
RedWord == TripleWord(RedChunk, 0)
BlueWord == TripleWord(BlueChunk, 0)

\* The step that feeds BlueChunk right after RedChunk was accepted as the
\* first chunk of its frame, the image being 4x2
FeedsBlueAfterRed ==
    /\ IsPacketStep
    /\ last.op = "process_packet" /\ last.data = RedChunk
    /\ last.stored /\ last.arrived = <<0>>
    /\ last'.data = BlueChunk
    /\ get_img_param(hub) = <<4, 8>>

IsBitmapFrame(bytes) ==
    /\ Len(bytes) >= 52
    /\ bytes[13] * 256 + bytes[14] = 2048
    /\ bytes[15] % 16 = 5
    /\ bytes[24] = 17
    /\ bytes[37] * 256 + bytes[38] = 7000

\* C25: is_bitmap_udp matches a frame exactly when it is at least 52 bytes
\* long, IPv4, with header length 5, UDP, for destination port 7000; every
\* other frame, IPv4 frames with options included, is left to the other
\* paths by the raw drain.
C25_BitmapFrameExactly ==
    [][(IsLoopStep /\ sched.pc = "drain" /\ mac.queue # <<>>) =>
        /\ hist'.ev.op \in {"raw", "drain_exit"}
        /\ hist'.ev.op = "raw" <=> IsBitmapFrame(Head(mac.queue).bytes)
        /\ hist'.ev.op = "drain_exit" => (mac' = mac /\ rx' = rx /\ hub' = hub)]_vars

\* C25 witness: a 52-byte IPv4 UDP frame for port 7000 whose IPv4 header
\* carries an option word (IHL 6) was not matched and stays pending
C25_Witness ==
    /\ hist.ev.op = "drain_exit"
    /\ mac.queue # <<>>
    /\ LET b == Head(mac.queue).bytes
       IN  /\ Len(b) = 52
           /\ b[13] * 256 + b[14] = 2048 /\ b[15] = 70 /\ b[24] = 17
           /\ b[37] * 256 + b[38] = 7000

\* C26: set_img_param(width, total_pixels) changes only the valid write
\* bound and the scan width: every word of both framebuffer halves, the
\* write-side/display-side assignment and fb_base are left unchanged.
C26_SetImgParamKeepsBuffers ==
    [][(last'.op = "set_img_param" /\ last' # last) =>
        /\ hub'.ctrl_width = last'.data[1]
        /\ hub'.length = last'.data[2]
        /\ hub'.mem = hub.mem
        /\ Roles(hub') = Roles(hub)
        /\ hub'.active_buf = hub.active_buf
        /\ rx' = rx]_vars

\* C26 witness: the image reconfigured from 4x2 to 8x1 while both halves
\* hold words and buf1 is on display
C26_Witness ==
    /\ last.op = "set_img_param" /\ last.data = <<8, 8>>
    /\ hub.mem[hub.hub75_data] # <<>>
    /\ hub.mem[hub.display_buffer] # <<>>
    /\ hub.display_buffer = 1
    /\ get_img_param(hub) = <<8, 8>>

\* A process_packet call that makes one completion or one partial swap (not
\* both) after an earlier completion or partial swap
OneCompletionAfterEarlier ==
    /\ IsPacketStep
    /\ last'.completed # last'.partial
    /\ rx.stats.frames_completed + rx.stats.frames_partial > 0

\* C27: at a completion or partial swap at time t that follows an earlier
\* one at time t0, frame_interval_ms becomes t - t0, avg_interval_ms becomes
\* floor((7 * old_avg + interval) / 8), or the interval when no average
\* exists yet, and jitter_ms the absolute difference of interval and
\* average; for every t0, 0 included.
C27_TimingAfterEveryCompletion ==
    [][OneCompletionAfterEarlier =>
        LET interval == time_ms - rx.last_complete_ms
            old == rx.stats.avg_interval_ms
            avg == IF old = 0 THEN interval ELSE (7 * old + interval) \div 8
        IN  /\ rx'.stats.frame_interval_ms = interval
            /\ rx'.stats.avg_interval_ms = avg
            /\ rx'.stats.jitter_ms =
                  (IF interval >= avg THEN interval - avg ELSE avg - interval)
            /\ rx'.last_complete_ms = time_ms]_vars

\* The counters of BitmapStats other than packets_total
Counters ==
    {"packets_valid", "packets_bad_magic", "packets_bad_header",
     "frames_completed", "frames_partial", "frames_dropped"}

\* packets_total after the call is packets_total before it plus 1
TotalGrowsByOne(st0, st1) ==
    \/ /\ st1.packets_total = st0.packets_total + 1
       /\ st1.packets_total_hi = st0.packets_total_hi
    \/ /\ st0.packets_total = U16_MAX /\ st1.packets_total = 0
       /\ st1.packets_total_hi = st0.packets_total_hi + 1

\* C28: across any sequence of process_packet calls each of the seven
\* counters never decreases and grows by at most 1 per call, and
\* packets_total grows by exactly 1 on every call.
C28_CountersMonotone ==
    [][IsPacketStep =>
        /\ \A c \in Counters :
              \/ rx'.stats[c] = rx.stats[c]
              \/ rx'.stats[c] - 1 = rx.stats[c]
        /\ TotalGrowsByOne(rx.stats, rx'.stats)]_vars

\* C29: with the hardware enqueuing frames concurrently with the scheduler
\* loop, every frame that the streaming branch of the burst loop
\* acknowledges and discards is a non-bitmap frame: no frame accepted by
\* is_bitmap_udp is acknowledged without having been handed to the
\* reassembler.
C29_DiscardedFramesAreNotBitmap ==
    hist.ev.op \in StreamingOps => ~IsBitmapFrame(hist.ev.frame.bytes)

\* The drain hands the pending frame to process_packet (main.rs:256-261)
IsDrainCall == hist'.ev.op = "raw" /\ hist'.drained = hist.drained + 1

\* C30: whenever a process_packet call in the drain step signals a swap,
\* the framebuffer roles have been exchanged exactly once by the time the
\* frame is acknowledged (the swap inside process_packet and the caller's
\* swap counted together); after a partial-frame swap the display-side is
\* the region that holds the previous frame's chunks and the first chunk of
\* the new frame is in the write-side, not on display.
C30_OneExchangePerSignal ==
    [][IsDrainCall =>
        LET d == SubSeq(hist'.ev.frame.bytes, ETH_IP_UDP_HEADER + 1,
                        Len(hist'.ev.frame.bytes))
            res == process_packet(rx, hub, d, time_ms, overflow_checks)
            partial == rx'.stats.frames_partial = rx.stats.frames_partial + 1
        IN  (~res.panic /\ res.ret) =>
               /\ Roles(hub') = Roles(swap_buffers(hub))
               /\ partial =>
                     /\ hub'.display_buffer = hub.hub75_data
                     /\ hub'.mem[hub'.display_buffer] = hub.mem[hub.hub75_data]
                     /\ hub'.mem[hub'.hub75_data][0] = TripleWord(d, 0)]_vars

\* No packet has been accepted since BitmapReceiver::new
NothingAcceptedYet == rx.stats.chunks_received = 0

\* C31: the first accepted packet after BitmapReceiver::new always triggers
\* the reset step, for every frame identifier 0..65535: afterwards the
\* tracked frame identifier and expected total are those of that packet, and
\* completion of that first frame is judged against its declared total.
C31_FirstPacketResets ==
    [][(IsPacketStep /\ last'.stored /\ NothingAcceptedYet) =>
        LET d == last'.data
        IN  /\ rx'.current_frame_id = from_le_bytes(d[3], d[4])
            /\ rx'.total_chunks = d[6]
            /\ rx'.width = from_le_bytes(d[7], d[8])
            /\ last'.completed <=> (d[5] = d[6] - 1 \/ d[6] <= 1)]_vars

\* C32: for any sequence of accepted packets in which each frame
\* identifier's chunks are contiguous (no identifier reappears after a
\* different one), each frame identifier contributes at most one event among
\* frames_completed, frames_partial and frames_dropped, and causes at most
\* one swap signal, whatever the order of its chunks.
C32_OneEventPerFrame ==
    tally.contiguous =>
        /\ tally.events <= 1 /\ tally.signals <= 1
        /\ tally.prev_events <= 1 /\ tally.prev_signals <= 1

\* The declared width or width*height differs from the configured image
DeclaresOtherImage(h, data) ==
    LET w == from_le_bytes(data[7], data[8])
        ht == from_le_bytes(data[9], data[10])
    IN  w # h.ctrl_width \/ w * ht # h.length

\* C33: while a non-zero image width is configured, no pixel data from a
\* packet whose declared width or width*height differs from the configured
\* image parameters is ever written to the framebuffer or counted toward a
\* frame: every such packet is rejected as a bad header with assembly state
\* unchanged, regardless of its frame identifier.
C33_MismatchNeverStored ==
    [][(IsPacketStep /\ ~panicked' /\ hub.ctrl_width # 0
            /\ HasHeader(last'.data) /\ DeclaresOtherImage(hub, last'.data)) =>
        /\ hub' = hub
        /\ Assembly(rx') = Assembly(rx)
        /\ rx'.stats.packets_bad_header = rx.stats.packets_bad_header + 1
        /\ ~last'.ret]_vars

\* C34: after any sequence of process_packet calls, packets_total =
\* packets_valid + packets_bad_magic + packets_bad_header: every packet is
\* classified into exactly one of valid, bad-magic and bad-header.
C34_TotalIsSumOfClasses ==
    rx.stats.packets_total + (U16_MAX + 1) * rx.stats.packets_total_hi
        = rx.stats.packets_valid + rx.stats.packets_bad_magic
            + rx.stats.packets_bad_header

\* C35: if DHCP has not configured an address by 10 seconds after start
\* (interface address still unspecified when time_ms reaches 10000), the
\* static fallback address 10.11.6.250/24 is assigned, whatever traffic is
\* being received at that time.
C35_FallbackAssigned ==
    time_ms > FALLBACK_MS => sched.addr # "unspecified"

\* The timer fires and the tick time_ms is over
TickEnds == time_ms' = time_ms + 1

\* C36: while not streaming and with a Rainbow animation active,
\* animation_tick runs once for every millisecond tick whose time_ms is a
\* multiple of 33 (about 30 updates per second), and never while streaming.
\* (animation_tick is called whatever the animation is; hist.anim is the
\* tick of its last call.)
C36_AnimationEvery33Ticks ==
    [][/\ (TickEnds /\ time_ms > 0 /\ time_ms % 33 = 0 /\ ~sched.streaming
              /\ ~Streaming(time_ms, sched.last_bitmap_packet_ms))
            => hist.anim = time_ms
       /\ "animation" \in hist'.ran => ~sched'.streaming]_vars

\* C37: after TftpConfigLoader::start, if poll is called repeatedly with a
\* time that keeps advancing, the loader eventually reaches Done or Failed
\* (it does not stay active forever), whether or not the socket can send and
\* whether or not the server answers; poll returns true on exactly the call
\* that enters Done.
C37_LoaderTerminates ==
    /\ is_active(tftp_loader.self.state)
          ~> (tftp_loader.self.state \in {"Done", "Failed"} \/ panicked)
    /\ [][(tftp_loader'.calls # tftp_loader.calls) =>
            (tftp_loader'.ret <=>
                (tftp_loader.self.state # "Done"
                    /\ tftp_loader'.self.state = "Done"))]_vars

\* A call of poll is made
IsTftpPoll == tftp_loader'.calls # tftp_loader.calls

\* C38: in every reachable state of TftpConfigLoader the stored config
\* length is at most 512 bytes and only DATA packets whose block number
\* equals the expected block are appended, each at most once; Done, Failed
\* and Idle are absorbing under poll (state, buffer and length unchanged)
\* until start is called again.
C38_LoaderBufferAndAbsorbing ==
    /\ [](/\ tftp_loader.self.len <= 512
          /\ tftp_loader.self.len = Len(tftp_loader.self.buf)
          /\ \A i, j \in DOMAIN tftp_loader.took :
                /\ tftp_loader.took[i].block = tftp_loader.took[i].expected
                /\ i # j => tftp_loader.took[i].block # tftp_loader.took[j].block)
    /\ [][IsTftpPoll =>
            LET l == tftp_loader.self
                q == tftp_loader.socket.rx
            IN  /\ tftp_loader'.self.buf # l.buf =>
                      /\ l.state = "WaitData" /\ q # <<>>
                      /\ Head(q)[2] = 3
                      /\ Head(q)[3] * 256 + Head(q)[4] = l.block
                      /\ \E n \in 0..(Len(Head(q)) - 4) :
                            tftp_loader'.self.buf =
                                l.buf \o SubSeq(Head(q), 5, 4 + n)
                /\ l.state \in {"Done", "Failed", "Idle"} =>
                      /\ tftp_loader'.self = l
                      /\ ~tftp_loader'.ret]_vars

\* C38 witness: block 1 with 512 bytes and block 2 with 3 bytes were
\* appended, the length stayed at 512, the loader is Done and was polled
\* again since
C38_Witness ==
    /\ tftp_loader.self.state = "Done"
    /\ Len(tftp_loader.took) = 2
    /\ tftp_loader.self.len = 512
    /\ ~tftp_loader.ret

====
